---- MODULE Spec2Model ----
(***************************************************************************)
(* A model of the hivemind search core: the board wrapper (board.rs), the  *)
(* static exchange evaluation and move ordering (search/sorting.rs), the   *)
(* negamax alpha-beta recursion (search/alpha_beta.rs) and the worker      *)
(* thread that runs searches on commands from a queue (search.rs).         *)
(***************************************************************************)
EXTENDS Integers, Sequences, FiniteSets, TLC

VARIABLES seeIn, seeOut,   \* the call of see() under check and its result
          api,             \* a call sequence on a Board under check, and its results
          mtx_board,       \* search.rs:35  the board shared with the host
          tt,              \* search.rs:35  the shared transposition table
          locks,           \* who holds the board mutex and the table mutex
          queue,           \* search.rs:36  the channel, commands not yet received
          sent,            \* how many commands the host has sent
          worker,          \* search.rs:38-46  the worker's locals and position
          output,          \* the lines printed
          board,           \* search.rs:69  the worker's clone of the board
          si,              \* search.rs:66  search_info
          elapsed,         \* search_info.elapsed()
          driver,          \* the iterative deepening loop's locals
          stack,           \* the frames of alpha_beta waiting for a call
          ctl,             \* the call being entered or the value returned
          taken,           \* which exits and prunings the root call has used
          effects,         \* what the last step of alpha_beta wrote
          ordering         \* the last step's call of update_ordering_heuristics

seeVars == <<seeIn, seeOut, api>>
hostVars == <<mtx_board, queue, sent>>
workerVars == <<locks, worker, output, driver>>
searchVars == <<tt, board, si, stack, ctl, taken, effects, ordering>>
vars == <<seeIn, seeOut, api, mtx_board, tt, locks, queue, sent, worker, output, board, si,
          elapsed, driver, stack, ctl, taken, effects, ordering>>

NoRole == "None"
NoColor == "None"

(***************************************************************************)
(* shakmaty's Role::ALL, in its order, and Color::other.                   *)
(***************************************************************************)
RoleALL == <<"Pawn", "Knight", "Bishop", "Rook", "Queen", "King">>

Other(color) == IF color = "White" THEN "Black" ELSE "White"

(***************************************************************************)
(* sorting.rs:16  SEE_VALUES, indexed by role (index 0 is "no role").      *)
(***************************************************************************)
SEE_VALUES ==
    [r \in {"None", "Pawn", "Knight", "Bishop", "Rook", "Queen", "King"} |->
        CASE r = "Pawn" -> 100
          [] r = "Knight" -> 400
          [] r = "Bishop" -> 400
          [] r = "Rook" -> 650
          [] r = "Queen" -> 1200
          [] OTHER -> 0]

(***************************************************************************)
(* The part of a position that see() reads: the side to move and the       *)
(* pieces on the squares from which the target square of the move can be   *)
(* attacked.  Squares are named relative to the target square TargetSq:    *)
(* one orthogonal ray, one diagonal ray on the side black pawns capture    *)
(* from, one diagonal ray on the side white pawns capture from (each ray   *)
(* nearest square first) and one knight square.                            *)
(***************************************************************************)
TargetSq == 0
OrthRay == <<1, 2>>
DiagRayN == <<3, 4>>
DiagRayS == <<5, 6>>
KnightSqs == {7}
KingSqs == {1, 3, 5}
Squares == 1..7

Empty == [color |-> NoColor, role |-> NoRole]

Range(s) == {s[i] : i \in DOMAIN s}

\* shakmaty attacks::rook_attacks / bishop_attacks along one ray: the squares
\* up to and including the first occupied one.
RayAttacks(ray, occupied) ==
    {ray[i] : i \in {j \in DOMAIN ray : \A k \in 1..(j - 1) : ray[k] \notin occupied}}

rook_attacks(occupied) == RayAttacks(OrthRay, occupied)

bishop_attacks(occupied) ==
    RayAttacks(DiagRayN, occupied) \cup RayAttacks(DiagRayS, occupied)

\* shakmaty attacks::pawn_attacks(!attacker, sq): where a pawn of colour
\* attacker stands to attack the target square.
pawn_attackers(attacker) == IF attacker = "White" THEN {DiagRayS[1]} ELSE {DiagRayN[1]}

by_color(view, color) == {s \in Squares : view.pieces[s].color = color}

by_role(view, role) == {s \in Squares : view.pieces[s].role = role}

board_occupied(view) ==
    {s \in Squares : view.pieces[s] # Empty}
        \cup (IF view.target # NoRole THEN {TargetSq} ELSE {})

\* shakmaty Board::attacks_to(sq, attacker, occupied)
attacks_to(view, attacker, occupied) ==
    by_color(view, attacker) \cap
        ( (rook_attacks(occupied) \cap (by_role(view, "Rook") \cup by_role(view, "Queen")))
          \cup (bishop_attacks(occupied) \cap (by_role(view, "Bishop") \cup by_role(view, "Queen")))
          \cup (KnightSqs \cap by_role(view, "Knight"))
          \cup (KingSqs \cap by_role(view, "King"))
          \cup (pawn_attackers(attacker) \cap by_role(view, "Pawn")) )

(***************************************************************************)
(* shakmaty Move: Normal {role, from, capture, to, promotion}, EnPassant,  *)
(* Castle, Put, and the accessors the search uses.                         *)
(***************************************************************************)
is_en_passant(mv) == mv.kind = "EnPassant"
is_castle(mv) == mv.kind = "Castle"
is_put(mv) == mv.kind = "Put"
is_promotion(mv) == mv.kind = "Normal" /\ mv.promotion # NoRole
move_capture(mv) ==
    IF mv.kind = "EnPassant" THEN "Pawn"
    ELSE IF mv.kind = "Normal" THEN mv.capture ELSE NoRole
is_capture(mv) == move_capture(mv) # NoRole
move_role(mv) ==
    CASE mv.kind = "EnPassant" -> "Pawn"
      [] mv.kind = "Castle" -> "King"
      [] OTHER -> mv.role

\* sorting.rs:18-22
least_valuable_attacker(view, attackers) ==
    LET found == {i \in DOMAIN RoleALL : attackers \cap by_role(view, RoleALL[i]) # {}}
    IN  IF found = {} THEN NoRole
        ELSE RoleALL[CHOOSE i \in found : \A j \in found : i <= j]

\* sorting.rs:24-34
move_value(mv) ==
    IF is_en_passant(mv) THEN SEE_VALUES["Pawn"]
    ELSE IF move_capture(mv) # NoRole THEN SEE_VALUES[move_capture(mv)] ELSE 0

\* Bitboard::isolate_first: the lowest square of a non-empty set.
isolate_first(sqs) == CHOOSE s \in sqs : \A t \in sqs : s <= t

\* Mutant of see_loop: the side to move is flipped only after the
\* balance >= 0 exit (sorting.rs:79 moved below sorting.rs:82-84).
RECURSIVE see_loop_flip_after_break(_, _, _, _, _)
see_loop_flip_after_break(view, occupied, attackers, stm, balance) ==
    LET our_attackers == attackers \cap by_color(view, stm)
    IN  IF our_attackers = {} THEN stm
        ELSE
          LET attacker == least_valuable_attacker(view, our_attackers)
          IN  IF attacker = "King" /\ (attackers \cap by_color(view, Other(stm))) # {}
              THEN stm
              ELSE
                LET occ2 == occupied \ {isolate_first(by_role(view, attacker) \cap our_attackers)}
                    bal2 == (0 - balance) - 1 - SEE_VALUES[attacker]
                    diagonal == by_role(view, "Bishop") \cup by_role(view, "Queen")
                    orthogonal == by_role(view, "Rook") \cup by_role(view, "Queen")
                    att_d == IF attacker \in {"Pawn", "Bishop", "Queen"}
                             THEN attackers \cup (bishop_attacks(occ2) \cap diagonal)
                             ELSE attackers
                    att_o == IF attacker \in {"Rook", "Queen"}
                             THEN att_d \cup (rook_attacks(occ2) \cap orthogonal)
                             ELSE att_d
                IN  IF bal2 >= 0 THEN stm
                    ELSE see_loop_flip_after_break(view, occ2, att_o \cap occ2, Other(stm), bal2)

\* sorting.rs:67-93, the swap loop; the value is the side to move when the
\* loop is left.
RECURSIVE see_loop(_, _, _, _, _)
see_loop(view, occupied, attackers, stm, balance) ==
    LET our_attackers == attackers \cap by_color(view, stm)
    IN  IF our_attackers = {} THEN stm
        ELSE
          LET attacker == least_valuable_attacker(view, our_attackers)
          IN  IF attacker = "King" /\ (attackers \cap by_color(view, Other(stm))) # {}
              THEN stm
              ELSE
                LET occ2 == occupied \ {isolate_first(by_role(view, attacker) \cap our_attackers)}
                    stm2 == Other(stm)
                    bal2 == (0 - balance) - 1 - SEE_VALUES[attacker]
                    diagonal == by_role(view, "Bishop") \cup by_role(view, "Queen")
                    orthogonal == by_role(view, "Rook") \cup by_role(view, "Queen")
                    att_d == IF attacker \in {"Pawn", "Bishop", "Queen"}
                             THEN attackers \cup (bishop_attacks(occ2) \cap diagonal)
                             ELSE attackers
                    att_o == IF attacker \in {"Rook", "Queen"}
                             THEN att_d \cup (rook_attacks(occ2) \cap orthogonal)
                             ELSE att_d
                IN  IF bal2 >= 0 THEN stm2
                    ELSE see_loop(view, occ2, att_o \cap occ2, stm2, bal2)

\* Mutant of see: the early return for a capture that pays for itself
\* (balance >= 0 after the moving piece is taken off, sorting.rs:50-53) is left
\* out, so every capture goes through the swap loop.
see_without_early_true(view, mv, threshold) ==
    IF is_put(mv) THEN TRUE
    ELSE IF is_promotion(mv) \/ is_castle(mv) THEN TRUE
    ELSE
      LET balance0 == move_value(mv) - threshold
          balance1 == balance0 - SEE_VALUES[move_role(mv)]
          occupied == (board_occupied(view) \ {mv.from}) \cup {TargetSq}
          attackers == (attacks_to(view, "White", occupied)
                            \cup attacks_to(view, "Black", occupied)) \cap occupied
      IN  IF balance0 < 0 THEN FALSE
          ELSE see_loop(view, occupied, attackers, Other(view.turn), balance1) # view.turn

\* sorting.rs:36-96.  Every move that passes the early returns has a from
\* square, so the result is never None; the value is the bool inside Some.
see(view, mv, threshold) ==
    IF is_put(mv) THEN TRUE
    ELSE IF is_promotion(mv) \/ is_castle(mv) THEN TRUE
    ELSE
      LET balance0 == move_value(mv) - threshold
          balance1 == balance0 - SEE_VALUES[move_role(mv)]
          occupied == (board_occupied(view) \ {mv.from}) \cup {TargetSq}
          attackers == (attacks_to(view, "White", occupied)
                            \cup attacks_to(view, "Black", occupied)) \cap occupied
      IN  IF balance0 < 0 THEN FALSE
          ELSE IF balance1 >= 0 THEN TRUE
          ELSE see_loop(view, occupied, attackers, Other(view.turn), balance1) # view.turn

(***************************************************************************)
(* Inputs of see(): the positions and moves the exchange evaluation is     *)
(* checked on.  A view holds at most MaxSeePieces pieces around the target *)
(* square; a piece stands only where it can attack the target square, or   *)
(* is a blocker next to it (a white knight stands for any piece that does  *)
(* not attack along the ray it is on).                                     *)
(***************************************************************************)
MaxSeePieces == 3

Colors == {"White", "Black"}

Piece(c, r) == [color |-> c, role |-> r]

RaySqs == Range(OrthRay) \cup Range(DiagRayN) \cup Range(DiagRayS)

PieceFits(s, p) ==
    \/ p.role = "Knight" /\ (s \in KnightSqs
                              \/ (p.color = "White" /\ s \in {OrthRay[1], DiagRayN[1], DiagRayS[1]}))
    \/ p.role = "Queen" /\ s \in RaySqs
    \/ p.role = "Rook" /\ s \in Range(OrthRay)
    \/ p.role = "Bishop" /\ s \in Range(DiagRayN) \cup Range(DiagRayS)
    \/ p.role = "King" /\ s \in KingSqs
    \/ p.role = "Pawn" /\ (s \in pawn_attackers(p.color) \/ s = OrthRay[1])

AllPieces == {Piece(c, r) : c \in Colors, r \in Range(RoleALL)}

PieceMaps ==
    UNION { { [s \in Squares |-> IF s \in sub THEN f[s] ELSE Empty] :
                f \in {g \in [sub -> AllPieces] :
                        /\ \A s \in sub : PieceFits(s, g[s])
                        /\ \A c \in Colors :
                             Cardinality({s \in sub : g[s] = Piece(c, "King")}) <= 1} } :
            sub \in {x \in SUBSET Squares : Cardinality(x) <= MaxSeePieces} }

Victims == {NoRole, "Pawn", "Knight", "Bishop", "Rook", "Queen"}

SeeViews ==
    {[turn |-> t, target |-> g, pieces |-> ps] :
        t \in Colors, g \in Victims, ps \in PieceMaps}

\* shakmaty Move, one record shape for the four variants (a field a variant
\* does not have holds NoRole, or the to square for the from of a Put).
Mv(kind, role, from, to, capture, promotion) ==
    [kind |-> kind, role |-> role, from |-> from, to |-> to,
     capture |-> capture, promotion |-> promotion]

NormalMove(role, from, capture, promotion) ==
    Mv("Normal", role, from, TargetSq, capture, promotion)

EnPassantMove(from) == Mv("EnPassant", "Pawn", from, TargetSq, NoRole, NoRole)

CastleMove == Mv("Castle", "King", OrthRay[1], TargetSq, NoRole, NoRole)

PutMove(role) == Mv("Put", role, TargetSq, TargetSq, NoRole, NoRole)

\* The moves to the target square that the side to move has in a view.
ViewMoves(view) ==
    LET us == view.turn
        att == attacks_to(view, us, board_occupied(view))
        pawnsq == pawn_attackers(us)
    IN  { NormalMove(view.pieces[s].role, s, view.target, NoRole) :
            s \in {x \in att : view.pieces[x].role # "Pawn" \/ view.target # NoRole} }
        \cup { NormalMove("Pawn", s, view.target, "Queen") :
                 s \in {x \in att : view.pieces[x].role = "Pawn" /\ view.target # NoRole} }
        \cup { NormalMove("Pawn", OrthRay[1], NoRole, NoRole) :
                 x \in {y \in {OrthRay[1]} : view.pieces[y] = Piece(us, "Pawn")
                                              /\ view.target = NoRole} }
        \cup { EnPassantMove(s) :
                 s \in {x \in att : /\ view.pieces[x].role = "Pawn"
                                    /\ view.target = NoRole
                                    /\ view.pieces[OrthRay[1]] = Piece(Other(us), "Pawn")} }
        \cup (IF view.target = NoRole /\ view.pieces[OrthRay[1]] = Piece(us, "King")
              THEN {CastleMove} ELSE {})
        \cup (IF view.target = NoRole THEN {PutMove("Knight")} ELSE {})

\* Thresholds: see() is called with 0 and with -margin * depth.
SeeThresholds == {0 - 300, 0, 100, 400}

\* Option<bool> as text, and the result slot before the call.
Some(b) == IF b THEN "Some(true)" ELSE "Some(false)"

Pending == "pending"

(***************************************************************************)
(* The positions searched: a small game given by its table.  shakmaty's    *)
(* Chess (move generation, check, play_unchecked, swap_turn, zobrist hash) *)
(* and the NNUE evaluation are libraries outside the repository; what the  *)
(* search reads of them is, per position: the side to move, whether it is  *)
(* in check, the static evaluation for the side to move, and the legal     *)
(* moves in generation order, each with the position it leads to and with  *)
(* the view see() has of its target square.                                *)
(*                                                                         *)
(*   1 -a-> 2 -d-> 5 -f-> 6 -g-> 1   knights out and back (a repetition)   *)
(*   1 -b-> 3   rook takes an undefended pawn;  3 -i-> 8  queen takes the  *)
(*              defended rook; 8 -p-> 10 pawn takes the queen              *)
(*   1 -c-> 4   check; 3 -h-> 7; 7 -l-> 11 mate; 7 -m-> 12 stalemate       *)
(*   13 <-> 14  king shuffles.                                             *)
(*   15 -q-> 16 -r-> 17   out of check into a mate in one                  *)
(*   18 -s-> 19 -u-> 21, 18 -t-> 20 -v-> 21, 21 -w-> 22 -x-> 23            *)
(*              a transposition: 21 is reached one ply deeper through the  *)
(*              check at 19 than through 20                                *)
(*   24 -y-> 32 -z-> 25 -> 26 -> 27   a line of single moves; 24 and 32    *)
(*              share a slot of the transposition table                    *)
(*   28 -> 14, 28 -> 29   29 is judged better for the side to move both    *)
(*              before and after a null move                               *)
(*   30 -> 31 stalemate, 30 -> 33 -> 34   the other move wins material     *)
(*   35 -> 14, 35 -> 36   at 36 the king move fails low, the queen move    *)
(*              loses the queen and the knight move is a cutoff            *)
(*   40 -> 41 -> 42 -> 43 -> 44 -> 14   a line of checks answered by       *)
(*              checks                                                     *)
(*   Positions 65..108 are the positions above with the turn swapped (the   *)
(*   positions a null move leads to).                                      *)
(***************************************************************************)
\* The pieces see() finds around a move's target: placed is a set of
\* <<square, color, role>>.
View(turn, target, placed) == [turn |-> turn, target |-> target, placed |-> placed]

PlacedOn(placed, s) ==
    IF \E x \in placed : x[1] = s THEN CHOOSE x \in placed : x[1] = s
    ELSE <<s, NoColor, NoRole>>

\* The view as see() reads it.
ViewOf(v) ==
    [turn |-> v.turn, target |-> v.target,
     pieces |-> [s \in Squares |-> Piece(PlacedOn(v.placed, s)[2], PlacedOn(v.placed, s)[3])]]

\* One legal move of a position: the move, the position it leads to, the view
\* see() has of it and the square of that view the moving piece stands on.
Edge(mv, dest, view, from) == [mv |-> mv, dest |-> dest, view |-> view, from |-> from]

Quiet(color, role, from, to, dest, sq) ==
    Edge(Mv("Normal", role, from, to, NoRole, NoRole), dest,
         View(color, NoRole, {<<sq, color, role>>}), sq)

NullShift == 64

RealPositions == 1..44

Positions == RealPositions \cup {p + NullShift : p \in RealPositions}

RealTable(p) ==
    CASE p = 1 -> [turn |-> "White", check |-> FALSE, eval |-> 20, edges |-> <<
              Quiet("White", "Knight", "g1", "f3", 2, 7),
              Edge(Mv("Normal", "Rook", "e1", "e5", "Pawn", NoRole), 3,
                   View("White", "Pawn", {<<2, "White", "Rook">>}), 2),
              Quiet("White", "Queen", "d1", "h5", 4, 4) >>]
      [] p = 2 -> [turn |-> "Black", check |-> FALSE, eval |-> 0 - 20, edges |-> <<
              Quiet("Black", "Knight", "g8", "f6", 5, 7),
              Quiet("Black", "Queen", "d8", "h4", 9, 4) >>]
      [] p = 3 -> [turn |-> "Black", check |-> FALSE, eval |-> 0 - 120, edges |-> <<
              Quiet("Black", "King", "b8", "a8", 7, 1),
              Edge(Mv("Normal", "Queen", "d8", "e5", "Rook", NoRole), 8,
                   View("Black", "Rook", {<<2, "Black", "Queen">>, <<5, "White", "Pawn">>}), 2) >>]
      [] p = 4 -> [turn |-> "Black", check |-> TRUE, eval |-> 0 - 30, edges |-> <<
              Quiet("Black", "King", "e8", "e7", 9, 1),
              Quiet("Black", "Pawn", "g7", "g6", 13, 1) >>]
      [] p = 5 -> [turn |-> "White", check |-> FALSE, eval |-> 20, edges |-> <<
              Quiet("White", "Knight", "f3", "g1", 6, 7),
              Quiet("White", "Bishop", "f1", "e2", 14, 6) >>]
      [] p = 6 -> [turn |-> "Black", check |-> FALSE, eval |-> 0 - 20, edges |-> <<
              Quiet("Black", "Knight", "f6", "g8", 1, 7) >>]
      [] p = 7 -> [turn |-> "White", check |-> FALSE, eval |-> 120, edges |-> <<
              Quiet("White", "Rook", "e5", "e7", 12, 2),
              Quiet("White", "Rook", "e5", "e8", 11, 2) >>]
      [] p = 8 -> [turn |-> "White", check |-> FALSE, eval |-> 0 - 550, edges |-> <<
              Quiet("White", "King", "c1", "b1", 14, 1),
              Edge(Mv("Normal", "Pawn", "d4", "e5", "Queen", NoRole), 10,
                   View("White", "Queen", {<<5, "White", "Pawn">>}), 5) >>]
      [] p = 9 -> [turn |-> "White", check |-> FALSE, eval |-> 40, edges |-> <<
              Quiet("White", "Bishop", "f1", "e2", 14, 6) >>]
      [] p = 10 -> [turn |-> "Black", check |-> FALSE, eval |-> 0 - 650, edges |-> <<
              Quiet("Black", "King", "b8", "c8", 13, 1) >>]
      [] p = 11 -> [turn |-> "Black", check |-> TRUE, eval |-> 0 - 400, edges |-> << >>]
      [] p = 12 -> [turn |-> "Black", check |-> FALSE, eval |-> 0 - 400, edges |-> << >>]
      [] p = 13 -> [turn |-> "White", check |-> FALSE, eval |-> 60, edges |-> <<
              Quiet("White", "King", "c1", "b1", 14, 1),
              Quiet("White", "Bishop", "f1", "e2", 14, 6) >>]
      [] p = 14 -> [turn |-> "Black", check |-> FALSE, eval |-> 0 - 60, edges |-> <<
              Quiet("Black", "King", "c8", "b8", 13, 1) >>]
      [] p = 15 -> [turn |-> "White", check |-> TRUE, eval |-> 0 - 500, edges |-> <<
              Quiet("White", "King", "g1", "h1", 16, 1) >>]
      [] p = 16 -> [turn |-> "Black", check |-> FALSE, eval |-> 500, edges |-> <<
              Quiet("Black", "Queen", "h3", "g2", 17, 4),
              Quiet("Black", "King", "c8", "b8", 13, 1) >>]
      [] p = 17 -> [turn |-> "White", check |-> TRUE, eval |-> 0 - 900, edges |-> << >>]
      [] p = 18 -> [turn |-> "White", check |-> FALSE, eval |-> 0, edges |-> <<
              Quiet("White", "Rook", "a1", "a8", 19, 2),
              Quiet("White", "Knight", "b1", "c3", 20, 7) >>]
      [] p = 19 -> [turn |-> "Black", check |-> TRUE, eval |-> 0, edges |-> <<
              Quiet("Black", "King", "h8", "h7", 21, 1) >>]
      [] p = 20 -> [turn |-> "Black", check |-> FALSE, eval |-> 0, edges |-> <<
              Quiet("Black", "Rook", "b8", "a8", 21, 2) >>]
      [] p = 21 -> [turn |-> "White", check |-> FALSE, eval |-> 0, edges |-> <<
              Quiet("White", "Knight", "c3", "d5", 22, 7) >>]
      [] p = 22 -> [turn |-> "Black", check |-> FALSE, eval |-> 0 - 300, edges |-> <<
              Quiet("Black", "Rook", "a8", "d8", 23, 2) >>]
      [] p = 23 -> [turn |-> "White", check |-> FALSE, eval |-> 0, edges |-> <<
              Quiet("White", "King", "c1", "b1", 14, 1) >>]
      [] p = 24 -> [turn |-> "White", check |-> FALSE, eval |-> 0, edges |-> <<
              Quiet("White", "Bishop", "c1", "g5", 32, 6) >>]
      [] p = 32 -> [turn |-> "Black", check |-> FALSE, eval |-> 0, edges |-> <<
              Quiet("Black", "Knight", "b8", "c6", 25, 7) >>]
      [] p = 25 -> [turn |-> "White", check |-> FALSE, eval |-> 0, edges |-> <<
              Quiet("White", "Bishop", "g5", "f6", 26, 6) >>]
      [] p = 26 -> [turn |-> "Black", check |-> FALSE, eval |-> 0, edges |-> <<
              Quiet("Black", "Pawn", "g7", "f6", 27, 1) >>]
      [] p = 28 -> [turn |-> "White", check |-> FALSE, eval |-> 0, edges |-> <<
              Quiet("White", "King", "c1", "b1", 14, 1),
              Quiet("White", "Knight", "g1", "f3", 29, 7) >>]
      [] p = 29 -> [turn |-> "Black", check |-> FALSE, eval |-> 100, edges |-> <<
              Quiet("Black", "King", "c8", "b8", 13, 1) >>]
      [] p = 30 -> [turn |-> "White", check |-> FALSE, eval |-> 300, edges |-> <<
              Quiet("White", "Queen", "d1", "d7", 31, 4),
              Quiet("White", "Rook", "a1", "a8", 33, 2) >>]
      [] p = 31 -> [turn |-> "Black", check |-> FALSE, eval |-> 0 - 300, edges |-> << >>]
      [] p = 33 -> [turn |-> "Black", check |-> FALSE, eval |-> 0 - 500, edges |-> <<
              Quiet("Black", "King", "h8", "h7", 34, 1) >>]
      [] p = 34 -> [turn |-> "White", check |-> FALSE, eval |-> 500, edges |-> <<
              Quiet("White", "King", "c1", "b1", 14, 1) >>]
      [] p = 35 -> [turn |-> "White", check |-> FALSE, eval |-> 60, edges |-> <<
              Quiet("White", "Knight", "b1", "c3", 36, 7),
              Quiet("White", "King", "c1", "b1", 14, 1) >>]
      [] p = 36 -> [turn |-> "Black", check |-> FALSE, eval |-> 0 - 60, edges |-> <<
              Quiet("Black", "Knight", "g8", "f6", 37, 7),
              Edge(Mv("Normal", "Queen", "d8", "h4", NoRole, NoRole), 38,
                   View("Black", NoRole, {<<1, "Black", "Queen">>, <<5, "White", "Pawn">>}), 1),
              Quiet("Black", "King", "c8", "b8", 39, 1) >>]
      [] p = 37 -> [turn |-> "White", check |-> FALSE, eval |-> 0, edges |-> <<
              Quiet("White", "King", "c1", "b1", 14, 1) >>]
      [] p = 38 -> [turn |-> "White", check |-> FALSE, eval |-> 0, edges |-> <<
              Quiet("White", "King", "c1", "b1", 14, 1) >>]
      [] p = 39 -> [turn |-> "White", check |-> FALSE, eval |-> 100, edges |-> <<
              Quiet("White", "King", "c1", "b1", 14, 1) >>]
      [] p = 40 -> [turn |-> "White", check |-> TRUE, eval |-> 0, edges |-> <<
              Quiet("White", "Rook", "a1", "a8", 41, 2) >>]
      [] p = 41 -> [turn |-> "Black", check |-> TRUE, eval |-> 0, edges |-> <<
              Quiet("Black", "Rook", "b8", "a8", 42, 2) >>]
      [] p = 42 -> [turn |-> "White", check |-> TRUE, eval |-> 0, edges |-> <<
              Quiet("White", "Knight", "c3", "d5", 43, 7) >>]
      [] p = 43 -> [turn |-> "Black", check |-> TRUE, eval |-> 0, edges |-> <<
              Quiet("Black", "Rook", "a8", "d8", 44, 2) >>]
      [] p = 44 -> [turn |-> "White", check |-> TRUE, eval |-> 0, edges |-> <<
              Quiet("White", "King", "c1", "b1", 14, 1) >>]
      [] OTHER -> [turn |-> "White", check |-> FALSE, eval |-> 200, edges |-> <<
              Quiet("White", "King", "c1", "b1", 14, 1) >>]

\* The evaluation of real position q after a null move. make_null_move
\* (board.rs:193-200) leaves the accumulators as they are and evaluate then
\* reads them for the other side: in most positions the sign changes; in
\* position 29 either side is judged better when it is the one to move.
NullEval(q) == IF q = 29 THEN 100 ELSE 0 - RealTable(q).eval

\* p - NullShift with the turn swapped: the evaluation is NullEval and the
\* side now to move has one king move, into the king shuffle.
PosTable(p) ==
    IF p \in RealPositions THEN RealTable(p)
    ELSE LET q == RealTable(p - NullShift)
         IN  [turn |-> Other(q.turn), check |-> FALSE, eval |-> NullEval(p - NullShift),
              edges |-> IF q.turn = "White"
                        THEN << Quiet("Black", "King", "c8", "b8", 13, 1) >>
                        ELSE << Quiet("White", "King", "c1", "b1", 14, 1) >>]

\* A position (shakmaty's Chess) is the record of what the search reads of
\* it, with the number that identifies it.
WithId(p, t) == [id |-> p, turn |-> t.turn, check |-> t.check, eval |-> t.eval, edges |-> t.edges]

Game == [p \in Positions |-> WithId(p, PosTable(p))]

\* Position::legal_moves, Position::is_check, Position::turn
pos_legal_moves(pos) == [i \in DOMAIN pos.edges |-> pos.edges[i].mv]

pos_is_check(pos) == pos.check

pos_turn(pos) == pos.turn

EdgeOf(pos, mv) == pos.edges[CHOOSE i \in DOMAIN pos.edges : pos.edges[i].mv = mv]

\* Position::play_unchecked
play_unchecked(pos, mv) == Game[EdgeOf(pos, mv).dest]

\* Position::swap_turn: an error when the side to move is in check.
CanSwapTurn(pos) == ~pos.check

swap_turn(pos) ==
    Game[IF pos.id \in RealPositions THEN pos.id + NullShift ELSE pos.id - NullShift]

\* zobrist_hash::<Zobrist64>(EnPassantMode::Legal): one value per position
\* (the side to move is part of the position).
zobrist_hash(pos) == pos.id

\* Network::evaluate(turn)
nnue_evaluate(pos) == pos.eval

\* see() on a move of the game: the view of the move's target square, with the
\* move's squares named as in that view.
SeeOnEdge(e, mv, threshold) ==
    see(ViewOf(e.view), [mv EXCEPT !.from = e.from, !.to = TargetSq], threshold)

SeeOf(pos, mv, threshold) == SeeOnEdge(EdgeOf(pos, mv), mv, threshold)

(***************************************************************************)
(* board.rs: the Board wrapper.  A board is the record of its fields: pos, *)
(* nnue (the depth of the evaluator's accumulator stack, which push        *)
(* raises and pop lowers), state_stack, move_stack (None for a null move), *)
(* history (the hashes after each made move) and ply.                      *)
(***************************************************************************)
NoMove == Mv("None", NoRole, "-", "-", NoRole, NoRole)

\* Array sizes and the ply limit (types::MAX_PLY), scaled down.
MAX_PLY == 5

\* types::Score
INFINITY == 32000
MATE == 30000
DRAW == 0
MATE_BOUND == MATE - MAX_PLY
mated_in(ply) == (0 - MATE) + ply

Max(a, b) == IF a >= b THEN a ELSE b
Min(a, b) == IF a <= b THEN a ELSE b
Abs(a) == IF a >= 0 THEN a ELSE 0 - a
Clamp(x, lo, hi) == Max(lo, Min(x, hi))
\* Rust's integer division truncates toward zero.
TruncDiv(a, b) == IF a >= 0 THEN a \div b ELSE 0 - ((0 - a) \div b)
Last(q) == q[Len(q)]
Front(q) == SubSeq(q, 1, Len(q) - 1)

\* board.rs:23-47
BoardNew(pos) ==
    [pos |-> pos, nnue |-> 0, state_stack |-> << >>, move_stack |-> << >>,
     history |-> << >>, ply |-> 0, eval_stack |-> [p \in 0..(MAX_PLY - 1) |-> 0]]

\* board.rs:73-75
get_hash(b) == zobrist_hash(b.pos)

\* board.rs:81-87, 217-219, 89-91
turn(b) == pos_turn(b.pos)
in_check(b) == pos_is_check(b.pos)
legal_moves(b) == pos_legal_moves(b.pos)
capture_moves(b) == SelectSeq(pos_legal_moves(b.pos), is_capture)

\* board.rs:105-183; in_place is the const parameter IN_PLACE.
Moved(b, mv, in_place, next) ==
    [pos |-> next,
     nnue |-> IF in_place THEN b.nnue ELSE b.nnue + 1,
     state_stack |-> Append(b.state_stack, b.pos),
     move_stack |-> Append(b.move_stack, mv),
     history |-> Append(b.history, zobrist_hash(next)),
     ply |-> IF in_place THEN b.ply ELSE b.ply + 1,
     eval_stack |-> b.eval_stack]

make_move(b, mv, in_place) == Moved(b, mv, in_place, play_unchecked(b.pos, mv))

\* Mutant of undo_move: the hash pushed by make_move (board.rs:182) stays on
\* the history (board.rs:189 left out).
undo_move_keeps_history(b) ==
    [pos |-> Last(b.state_stack),
     nnue |-> b.nnue - 1,
     state_stack |-> Front(b.state_stack),
     move_stack |-> Front(b.move_stack),
     history |-> b.history,
     ply |-> b.ply - 1,
     eval_stack |-> b.eval_stack]

\* board.rs:185-191
undo_move(b) ==
    [pos |-> Last(b.state_stack),
     nnue |-> b.nnue - 1,
     state_stack |-> Front(b.state_stack),
     move_stack |-> Front(b.move_stack),
     history |-> Front(b.history),
     ply |-> b.ply - 1,
     eval_stack |-> b.eval_stack]

\* board.rs:193-200
make_null_move(b) ==
    [b EXCEPT !.state_stack = Append(@, b.pos),
              !.pos = IF CanSwapTurn(b.pos) THEN swap_turn(b.pos) ELSE b.pos,
              !.move_stack = Append(@, NoMove),
              !.ply = @ + 1]

\* board.rs:202-206
undo_null_move(b) ==
    [b EXCEPT !.pos = Last(b.state_stack),
              !.state_stack = Front(@),
              !.move_stack = Front(@),
              !.ply = @ - 1]

\* board.rs:208-210: Vec::last() is None only for an empty vector.
is_last_move_null(b) == Len(b.move_stack) = 0

\* board.rs:235-237
set_eval(b, ply, eval) == [b EXCEPT !.eval_stack[ply] = eval]

\* board.rs:240-246, the closure: evaluated only when ply >= 2.
improving(b) ==
    LET first == b.eval_stack[b.ply - 2]
        previous == IF first = 0 - INFINITY /\ b.ply >= 4
                    THEN b.eval_stack[b.ply - 4] ELSE first
    IN  b.eval_stack[b.ply] > previous

\* board.rs:239-248
is_improving(b) == IF b.ply < 2 THEN TRUE ELSE ~in_check(b) /\ improving(b)

\* board.rs:212-215
evaluate(b) == Clamp(nnue_evaluate(b.pos), (0 - MATE_BOUND) + 1, MATE_BOUND - 1)

\* board.rs:224-231: the loop over the history from its end, at entry i with
\* cnt matches counted so far.
RECURSIVE three_fold_scan(_, _, _, _)
three_fold_scan(history, hash, i, cnt) ==
    IF i = 0 THEN FALSE
    ELSE IF history[i] # hash THEN three_fold_scan(history, hash, i - 1, cnt)
    ELSE IF cnt + 1 > 1 THEN TRUE
    ELSE three_fold_scan(history, hash, i - 1, cnt + 1)

\* Mutant of three_fold: true from the third occurrence on (cnt > 2 for the
\* cnt > 1 of board.rs:227).
three_fold_from_third(b) ==
    Cardinality({i \in DOMAIN b.history : b.history[i] = get_hash(b)}) > 2

\* board.rs:221-233
three_fold(b) == three_fold_scan(b.history, get_hash(b), Len(b.history), 0)

\* board.rs:77-79: UciMove text of a move.
to_uci(mv) ==
    CASE mv.kind = "Put" -> "@" \o mv.to
      [] mv.kind = "Normal" /\ mv.promotion # NoRole -> mv.from \o mv.to \o "q"
      [] OTHER -> mv.from \o mv.to

\* Mutant of play_uci: the make_move is outside the comparison, so the first
\* legal move is played when the text matches none (board.rs:61-64).
play_uci_plays_first(b, uci_move) ==
    LET moves == legal_moves(b)
        hits == {i \in DOMAIN moves : to_uci(moves[i]) = uci_move}
    IN  IF Len(moves) = 0 THEN b
        ELSE IF hits = {} THEN make_move(b, moves[1], TRUE)
        ELSE make_move(b, moves[CHOOSE i \in hits : \A j \in hits : i <= j], TRUE)

\* board.rs:58-66
play_uci(b, uci_move) ==
    LET moves == legal_moves(b)
        hits == {i \in DOMAIN moves : to_uci(moves[i]) = uci_move}
    IN  IF hits = {} THEN b
        ELSE make_move(b, moves[CHOOSE i \in hits : \A j \in hits : i <= j], TRUE)

(***************************************************************************)
(* The transposition table (transposition.rs, not among the sources here;  *)
(* modelled from the specification's sections 3 and 4.7): slots indexed by *)
(* hash mod capacity, always replaced, mate scores stored relative to the  *)
(* node.                                                                   *)
(***************************************************************************)
TTCapacity == 8

NoEntry == [key |-> 0 - 1, depth |-> 0, score |-> 0, bound |-> "None", m |-> NoMove]

TTNew == [i \in 0..(TTCapacity - 1) |-> NoEntry]

TTIndex(hash) == hash % TTCapacity

tt_write(t, hash, depth, score, bound, m, ply) ==
    LET stored == IF score >= MATE_BOUND THEN score + ply
                  ELSE IF score <= 0 - MATE_BOUND THEN score - ply ELSE score
    IN  [t EXCEPT ![TTIndex(hash)] =
            [key |-> hash, depth |-> depth, score |-> stored, bound |-> bound, m |-> m]]

\* The entry for hash, its score made relative to the root again, or NoEntry.
tt_read(t, hash, ply) ==
    LET e == t[TTIndex(hash)]
    IN  IF e.key # hash THEN NoEntry
        ELSE [e EXCEPT !.score = IF e.score >= MATE_BOUND THEN e.score - ply
                                 ELSE IF e.score <= 0 - MATE_BOUND THEN e.score + ply
                                 ELSE e.score]

valid_cutoff(e, alpha, beta, depth) ==
    /\ e.depth >= depth
    /\ \/ e.bound = "Exact"
       \/ e.bound = "Beta" /\ e.score >= beta
       \/ e.bound = "Alpha" /\ e.score <= alpha

(***************************************************************************)
(* The history tables (history.rs, not among the sources here; modelled    *)
(* from the specification's section 4.6): main history by (side to move,   *)
(* from, to), capture history by (moving piece, to, captured piece), both  *)
(* updated with gravity.                                                   *)
(***************************************************************************)
MAX_HISTORY == 16384
HISTORY_BONUS_CAP == 1600

AllEdges == UNION {Range(Game[p].edges) : p \in Positions}

MainKey(color, mv) == <<color, mv.from, mv.to>>
CaptureKey(mv) == <<move_role(mv), mv.to, move_capture(mv)>>

MainKeys == {MainKey(e.view.turn, e.mv) : e \in {x \in AllEdges : ~is_capture(x.mv)}}
CaptureKeys == {CaptureKey(e.mv) : e \in {x \in AllEdges : is_capture(x.mv)}}

HistoryNew == [main |-> [k \in MainKeys |-> 0], capture |-> [k \in CaptureKeys |-> 0]]

Gravity(h, bonus) == h + bonus - TruncDiv(h * Abs(bonus), MAX_HISTORY)

HistoryBonus(depth) == Min(depth * depth, HISTORY_BONUS_CAP)

get_main(h, color, mv) == h.main[MainKey(color, mv)]

get_capture(h, mv) == h.capture[CaptureKey(mv)]

\* best_move is rewarded, the moves of tried are penalised.
update_main(h, color, best_move, tried, depth) ==
    LET bonus == HistoryBonus(depth)
        pen == {MainKey(color, tried[i]) : i \in DOMAIN tried}
    IN  [h EXCEPT !.main =
            [k \in MainKeys |->
               LET a == IF k \in pen THEN Gravity(h.main[k], 0 - bonus) ELSE h.main[k]
               IN  IF k = MainKey(color, best_move) THEN Gravity(a, bonus) ELSE a]]

update_capture(h, best_move, tried, depth) ==
    LET bonus == HistoryBonus(depth)
        pen == {CaptureKey(tried[i]) : i \in DOMAIN tried}
    IN  [h EXCEPT !.capture =
            [k \in CaptureKeys |->
               LET a == IF k \in pen THEN Gravity(h.capture[k], 0 - bonus) ELSE h.capture[k]
               IN  IF k = CaptureKey(best_move) THEN Gravity(a, bonus) ELSE a]]

(***************************************************************************)
(* sorting.rs:99-151  Search::sort_moves.                                  *)
(***************************************************************************)
BAD_CAPTURE == 0 - 200000000
GOOD_CAPTURE == 200000000
KILLER_BONUS == 100000000
HASH_MOVE == 300000000
DROP_MOVE == 100000

\* types::parameters::ordering_main()
ORDERING_MAIN == 1

\* sorting.rs:105-149, the key closure.  The comparison with pv_move
\* (sorting.rs:106-108) has an empty body.
sort_key(m, pv_move, tt_move, pos, killer, hist) ==
    IF tt_move # NoMove /\ tt_move = m THEN HASH_MOVE
    ELSE IF is_capture(m)
         THEN LET see_value == SeeOf(pos, m, 0)
                  history == get_capture(hist, m)
                  mvv == 32 * SEE_VALUES[move_capture(m)]
              IN  IF ~see_value THEN BAD_CAPTURE + history + mvv
                  ELSE GOOD_CAPTURE + history + mvv
    ELSE IF killer # NoMove /\ m = killer THEN KILLER_BONUS
    ELSE IF is_put(m) THEN DROP_MOVE
    ELSE ORDERING_MAIN * get_main(hist, pos_turn(pos), m)

\* slice::sort_by_key: a stable sort, ascending by key.  keys[i] is the key
\* of q[i]; an element is inserted behind the elements whose key is not larger.
RECURSIVE StableInsert(_, _, _, _)
StableInsert(sorted, skeys, x, k) ==
    IF sorted = << >> THEN << <<x>>, <<k>> >>
    ELSE IF Last(skeys) <= k
         THEN << Append(sorted, x), Append(skeys, k) >>
         ELSE LET r == StableInsert(Front(sorted), Front(skeys), x, k)
              IN  << Append(r[1], Last(sorted)), Append(r[2], Last(skeys)) >>

RECURSIVE SortByKey(_, _, _)
SortByKey(q, keys, n) ==
    IF n = 0 THEN << << >>, << >> >>
    ELSE LET r == SortByKey(q, keys, n - 1)
         IN  StableInsert(r[1], r[2], q[n], keys[n])

sort_by_key(q, keys) == SortByKey(q, keys, Len(q))[1]

\* Vec::reverse
Reverse(q) == [i \in 1..Len(q) |-> q[Len(q) + 1 - i]]

\* sorting.rs:99-151
sort_moves(moves, pv_move, tt_move, pos, killer, hist) ==
    Reverse(sort_by_key(moves,
        [i \in DOMAIN moves |-> sort_key(moves[i], pv_move, tt_move, pos, killer, hist)]))

(***************************************************************************)
(* The quiescence search (qsearch.rs, not among the sources here; modelled *)
(* from the specification's section 4.3).  It makes and undoes its moves   *)
(* itself, so it is a function of the position; the value is the score,    *)
(* the node counter after it and whether it set the terminated flag.       *)
(* cx holds what it reads: the table, the history and whether the search   *)
(* time is over.                                                           *)
(***************************************************************************)
\* alpha_beta.rs:13  (nodes & 2047) == 0, the interval scaled down.
NodeCheckInterval == 8

TimeCheckDue(nodes) == nodes % NodeCheckInterval = 0

\* Steps 1-5 of a node: the result when the node ends before its loop
\* (done), otherwise the sorted captures and the window the loop starts with.
qsearch_entry(pos, alpha, beta, nodes, ply, cx) ==
    LET n1 == nodes + 1
        stand_pat == Clamp(nnue_evaluate(pos), (0 - MATE_BOUND) + 1, MATE_BOUND - 1)
        hit == tt_read(cx.tt, zobrist_hash(pos), ply)
        a1 == Max(alpha, stand_pat)
        caps == SelectSeq(pos_legal_moves(pos), is_capture)
        End(score, t, c) == [done |-> TRUE, score |-> score, nodes |-> n1,
                             terminated |-> t, cut |-> c]
    IN  IF TimeCheckDue(n1) /\ cx.expired THEN End(0, TRUE, FALSE)
        ELSE IF stand_pat >= beta THEN End(beta, FALSE, FALSE)
        ELSE IF hit # NoEntry /\ valid_cutoff(hit, a1, beta, 0) THEN End(hit.score, FALSE, TRUE)
        ELSE [done |-> FALSE, nodes |-> n1, alpha |-> a1,
              moves |-> sort_moves(caps, NoMove, NoMove, pos, NoMove, cx.hist)]

NoFlags == [terminated |-> FALSE, cut |-> FALSE]

RECURSIVE qsearch_loop(_, _, _, _, _, _, _, _, _, _)

\* A node whose steps 1-5 gave e: its result.
qsearch_from(pos, beta, ply, cx, e) ==
    IF e.done
    THEN [score |-> e.score, nodes |-> e.nodes, terminated |-> e.terminated, cut |-> e.cut]
    ELSE qsearch_loop(pos, e.moves, 1, e.alpha, beta, e.alpha, e.nodes, NoFlags, ply, cx)

qsearch(pos, alpha, beta, nodes, ply, cx) ==
    qsearch_from(pos, beta, ply, cx, qsearch_entry(pos, alpha, beta, nodes, ply, cx))

\* Step 6 after the recursive call on move i returned r.
qsearch_after(pos, moves, i, alpha, beta, best, flags, ply, cx, r) ==
    qsearch_loop(pos, moves, i + 1, Max(alpha, 0 - r.score), beta, Max(best, 0 - r.score),
                 r.nodes,
                 [terminated |-> flags.terminated \/ r.terminated, cut |-> flags.cut \/ r.cut],
                 ply, cx)

\* Steps 6-7: the loop over the captures from move i on.
qsearch_loop(pos, moves, i, alpha, beta, best, nodes, flags, ply, cx) ==
    IF i > Len(moves) \/ alpha >= beta
    THEN [score |-> best, nodes |-> nodes, terminated |-> flags.terminated, cut |-> flags.cut]
    ELSE IF ~SeeOf(pos, moves[i], 0)
    THEN qsearch_loop(pos, moves, i + 1, alpha, beta, best, nodes, flags, ply, cx)
    ELSE qsearch_after(pos, moves, i, alpha, beta, best, flags, ply, cx,
                       qsearch(play_unchecked(pos, moves[i]), 0 - beta, 0 - alpha, nodes,
                               ply + 1, cx))

(***************************************************************************)
(* types::parameters (not among the sources here; the specification names  *)
(* the tunables without values).  LMR_DEPTH and LMR_MOVES_PLAYED are       *)
(* scaled to the depths searched here.                                     *)
(***************************************************************************)
IIR_DEPTH == 3
RFP_DEPTH == 5
RFP_MARGIN == 75
RAZORING_DEPTH == 3
RAZORING_MARGIN == 150
RAZORING_FIXED_MARGIN == 100
FP_DEPTH == 5
FP_MARGIN == 100
FP_FIXED_MARGIN == 50
SEE_DEPTH == 7
SEE_QUIET_MARGIN == 50
SEE_NOISY_MARGIN == 90
LMR_MOVES_PLAYED == 1
LMR_DEPTH == 1

(***************************************************************************)
(* defs.rs SearchInfo (not among the sources here; modelled from the       *)
(* specification's section 3).                                             *)
(***************************************************************************)
Plies == 0..(MAX_PLY - 1)

SearchInfoNew ==
    [nodes |-> 0, sel_depth |-> 0, ply |-> 0,
     pv |-> [p \in Plies |-> [j \in Plies |-> NoMove]],
     pv_length |-> [p \in Plies |-> 0],
     killers |-> [p \in Plies |-> NoMove],
     history |-> HistoryNew,
     terminated |-> FALSE]

(***************************************************************************)
(* alpha_beta.rs: Search::alpha_beta as a machine.  A call is entered from *)
(* ctl; a node that calls a child pushes its locals as a frame whose pc    *)
(* names the call it waits for ("null" line 95, "first" line 139, "lmr"    *)
(* line 150, "zw" line 156, "full" line 159); a return leaves the value in *)
(* ctl.  m is the state the code works on: board, si (search_info), tt,    *)
(* stack, ctl, expired (elapsed() > search_time), and the records taken    *)
(* and effects.                                                            *)
(***************************************************************************)
Idle == [kind |-> "idle"]

\* No call of update_ordering_heuristics in the step.
NoOrdering == [called |-> FALSE]

\* What a call must leave as it found it.
Snapshot(m) ==
    [hash |-> get_hash(m.board), state_stack |-> Len(m.board.state_stack),
     move_stack |-> Len(m.board.move_stack), history |-> Len(m.board.history),
     board_ply |-> m.board.ply, ply |-> m.si.ply]

Return(m, entry, val, via) ==
    [m EXCEPT !.ctl = [kind |-> "ret", val |-> val, via |-> via, entry |-> entry],
              !.taken = @ \cup {via}]

Call(m, f, pc, depth, alpha, beta) ==
    [m EXCEPT !.stack = Append(@, [f EXCEPT !.pc = pc]),
              !.ctl = [kind |-> "call", depth |-> depth, alpha |-> alpha, beta |-> beta]]

Took(m, what) == [m EXCEPT !.taken = @ \cup {what}]
Wrote(m, what) == [m EXCEPT !.effects = @ \cup {what}]

\* The working state after a qsearch that returned r.
QsearchDone(m, r) ==
    [score |-> r.score,
     m |-> [m EXCEPT !.si.nodes = r.nodes,
                     !.si.terminated = @ \/ r.terminated,
                     !.taken = @ \cup (IF r.cut THEN {"qsearch_ttcut"} ELSE {})
                                 \cup (IF r.terminated THEN {"qsearch_time"} ELSE {})]]

\* Search::qsearch(refs, alpha, beta) on the working board.
QsearchCall(m, alpha, beta) ==
    QsearchDone(m, qsearch(m.board.pos, alpha, beta, m.si.nodes, m.si.ply,
                           [tt |-> m.tt, hist |-> m.si.history, expired |-> m.expired]))

\* Mutant of update_pv: the tail is filled with the node's own move instead of
\* the child's line (best_move for pv[ply + 1][next_ply] at alpha_beta.rs:244).
update_pv_repeats_move(m, best_move, ply) ==
    Wrote([m EXCEPT
        !.si.pv[ply] = [j \in Plies |->
            IF j = ply THEN best_move
            ELSE IF j >= ply + 1 /\ j < m.si.pv_length[ply + 1] THEN best_move
            ELSE @[j]],
        !.si.pv_length[ply] = m.si.pv_length[ply + 1]], "update_pv")

\* alpha_beta.rs:241-247
update_pv(m, best_move, ply) ==
    Wrote([m EXCEPT
        !.si.pv[ply] = [j \in Plies |->
            IF j = ply THEN best_move
            ELSE IF j >= ply + 1 /\ j < m.si.pv_length[ply + 1] THEN m.si.pv[ply + 1][j]
            ELSE @[j]],
        !.si.pv_length[ply] = m.si.pv_length[ply + 1]], "update_pv")

\* alpha_beta.rs:222-239
update_ordering_heuristics(m, depth, best_move, captures, quiets) ==
    IF is_capture(best_move)
    THEN Wrote([m EXCEPT !.si.history = update_capture(@, best_move, captures, depth)],
               "history")
    ELSE Wrote(Wrote([m EXCEPT
                 !.si.killers[m.si.ply] = best_move,
                 !.si.history = update_main(@, turn(m.board), best_move, quiets, depth)],
               "killer"), "history")

\* Mutant of NoMoves: no legal move is scored as mate whether or not the
\* side to move is in check (the else branch of alpha_beta.rs:189-193 lost).
NoMoves_always_mate(m, f) == Return(m, f.entry, mated_in(f.ply), "no_moves")

\* Mutant of NoMoves: no legal move is scored as a draw whether or not the
\* side to move is in check (the in_check branch of alpha_beta.rs:189-193
\* lost).
NoMoves_always_draw(m, f) == Return(m, f.entry, DRAW, "no_moves")

\* alpha_beta.rs:188-194
NoMoves(m, f) ==
    Return(m, f.entry, IF f.in_check THEN mated_in(f.ply) ELSE DRAW, "no_moves")

\* The call of update_ordering_heuristics at alpha_beta.rs:202-208 by the
\* node of frame f: its arguments, with the moves the node has made
\* (f.made) and the place in the move list its loop stopped at.
OrderingCall(f) ==
    [called |-> TRUE, best_move |-> f.best_move, captures |-> f.captures,
     quiets |-> f.quiets, made |-> f.made, i |-> f.i]

\* alpha_beta.rs:188-219, after the move loop.
Finish(m, f) ==
    IF Len(f.moves) = 0 THEN NoMoves(m, f)
    ELSE LET bound == IF f.best_score <= f.original_alpha THEN "Alpha"
                      ELSE IF f.best_score >= f.beta THEN "Beta" ELSE "Exact"
             m1 == IF bound = "Beta"
                   THEN [update_ordering_heuristics(m, f.depth, f.best_move,
                                                    f.captures, f.quiets)
                            EXCEPT !.ordering = OrderingCall(f)]
                   ELSE m
             m2 == Wrote([m1 EXCEPT !.tt = tt_write(@, get_hash(m1.board), f.depth,
                                                    f.best_score, bound, f.best_move, f.ply)],
                         "tt_write")
         IN  Return(m2, f.entry, f.best_score, IF bound = "Beta" THEN "beta_cutoff" ELSE "normal")

\* alpha_beta.rs:142-148
LmrApplies(m, f, mv) ==
    /\ f.i - 1 >= LMR_MOVES_PLAYED
    /\ f.depth >= LMR_DEPTH
    /\ f.ply >= 3
    /\ ~is_capture(mv)
    /\ ~is_promotion(mv)
    /\ ~f.in_check
    /\ mv # m.si.killers[f.ply]

\* alpha_beta.rs:107-162: the loop from move f.i (moves_searched = f.i - 1) up
\* to the first recursive call, or past the last move.
RECURSIVE Loop(_, _)
Loop(m, f) ==
    IF f.i > Len(f.moves) THEN Finish(m, f)
    ELSE LET mv == f.moves[f.i]
             moves_searched == f.i - 1
             late == ~f.is_root /\ moves_searched > 0 /\ f.alpha > 0 - MATE_BOUND
             futile == /\ ~f.pv_node /\ ~f.in_check /\ ~is_capture(mv)
                       /\ f.depth <= FP_DEPTH
                       /\ f.eval + FP_MARGIN * f.depth + FP_FIXED_MARGIN < f.alpha
             margin == IF is_capture(mv) THEN SEE_NOISY_MARGIN ELSE SEE_QUIET_MARGIN
             losing == /\ f.depth < SEE_DEPTH
                       /\ ~SeeOf(m.board.pos, mv, 0 - (margin * f.depth))
             made == [m EXCEPT !.board = make_move(@, mv, FALSE), !.si.ply = @ + 1]
             g == [f EXCEPT !.made = Append(@, mv)]
         IN  IF late /\ futile THEN Finish(Took(m, "futility"), f)
             ELSE IF late /\ losing THEN Loop(Took(m, "see_pruning"), [f EXCEPT !.i = @ + 1])
             ELSE IF moves_searched = 0
                  THEN Call(made, g, "first", f.depth - 1, 0 - f.beta, 0 - f.alpha)
             ELSE IF LmrApplies(m, f, mv)
                  THEN Call(Took(made, "lmr"), g, "lmr", f.depth - 2, (0 - f.alpha) - 1, 0 - f.alpha)
             ELSE Call(made, g, "zw", f.depth - 1, (0 - f.alpha) - 1, 0 - f.alpha)

\* Mutant of AfterMove: the move joins its list before the cutoff test
\* (alpha_beta.rs:181-185 ahead of 177-179).
AfterMove_pushes_first(m, f, score) ==
    LET mv == f.moves[f.i]
        m1 == [m EXCEPT !.board = undo_move(@), !.si.ply = @ - 1]
        better == score > f.best_score
        raised == better /\ score > f.alpha
        f1 == [f EXCEPT !.best_score = IF better THEN score ELSE @,
                        !.best_move = IF better THEN mv ELSE @,
                        !.alpha = IF raised THEN score ELSE @,
                        !.captures = IF is_capture(mv) THEN Append(@, mv) ELSE @,
                        !.quiets = IF is_capture(mv) THEN @ ELSE Append(@, mv)]
        m2 == IF raised THEN update_pv(m1, mv, f.ply) ELSE m1
    IN  IF f1.alpha >= f1.beta THEN Finish(m2, f1)
        ELSE Loop(m2, [f1 EXCEPT !.i = @ + 1])

\* alpha_beta.rs:164-186: the move f.moves[f.i] has been searched with score.
AfterMove(m, f, score) ==
    LET mv == f.moves[f.i]
        m1 == [m EXCEPT !.board = undo_move(@), !.si.ply = @ - 1]
        better == score > f.best_score
        raised == better /\ score > f.alpha
        f1 == [f EXCEPT !.best_score = IF better THEN score ELSE @,
                        !.best_move = IF better THEN mv ELSE @,
                        !.alpha = IF raised THEN score ELSE @]
        m2 == IF raised THEN update_pv(m1, mv, f.ply) ELSE m1
    IN  IF f1.alpha >= f1.beta THEN Finish(m2, f1)
        ELSE Loop(m2, [f1 EXCEPT !.captures = IF is_capture(mv) THEN Append(@, mv) ELSE @,
                                 !.quiets = IF is_capture(mv) THEN @ ELSE Append(@, mv),
                                 !.i = @ + 1])

\* alpha_beta.rs:104-105, then the loop.
SearchMoves(m, f) ==
    LET moves == legal_moves(m.board)
        sorted == sort_moves(moves, m.si.pv[f.ply][f.ply], f.tt_move, m.board.pos,
                             m.si.killers[m.si.ply], m.si.history)
    IN  Loop(m, [f EXCEPT !.moves = sorted, !.i = 1])

\* Mutant of NullMove: the reduction is 3, without the depth / 3 and the
\* margin term of alpha_beta.rs:93.
NullMove_reduces_by_three(m, f) ==
    IF ~is_last_move_null(m.board) /\ f.depth >= 4 /\ f.eval > f.beta
    THEN Call(Took([m EXCEPT !.board = make_null_move(@)], "nmp"), f, "null",
              f.depth - 3, 0 - f.beta, (0 - f.beta) + 1)
    ELSE SearchMoves(m, f)

\* alpha_beta.rs:90-102: null move pruning, or on to the moves.
NullMove(m, f) ==
    IF ~is_last_move_null(m.board) /\ f.depth >= 4 /\ f.eval > f.beta
    THEN Call(Took([m EXCEPT !.board = make_null_move(@)], "nmp"), f, "null",
              f.depth - (3 + TruncDiv(f.depth, 3) + Min(TruncDiv(f.eval - f.beta, 200), 4)),
              0 - f.beta, (0 - f.beta) + 1)
    ELSE SearchMoves(m, f)

\* alpha_beta.rs:85-89: razoring's qsearch has returned q.
Razored(f, q) ==
    IF q.score <= f.alpha THEN Return(Took(q.m, "razoring"), f.entry, q.score, "razoring_cut")
    ELSE NullMove(Took(q.m, "razoring"), f)

\* alpha_beta.rs:75-89: static eval, reverse futility pruning and razoring.
Prune(m, f) ==
    IF f.in_check \/ f.pv_node \/ f.is_root THEN SearchMoves(m, f)
    ELSE IF f.depth < RFP_DEPTH /\ f.eval - RFP_MARGIN * f.depth > f.beta
    THEN Return(m, f.entry, f.eval, "rfp")
    ELSE IF /\ f.depth <= RAZORING_DEPTH
            /\ f.eval + RAZORING_MARGIN * f.depth + RAZORING_FIXED_MARGIN <= f.alpha
    THEN Razored(f, QsearchCall(m, f.alpha, f.beta))
    ELSE NullMove(m, f)

\* alpha_beta.rs:53-73: the table probe, internal iterative reduction, the
\* check extension and the node's bookkeeping.
Probe(m, f) ==
    LET hit == tt_read(m.tt, get_hash(m.board), f.ply)
        tt_move == IF hit # NoEntry THEN hit.m ELSE NoMove
        iir == ~f.is_root /\ tt_move = NoMove /\ f.depth >= IIR_DEPTH
        depth == (IF iir THEN f.depth - 1 ELSE f.depth) + (IF f.in_check THEN 1 ELSE 0)
        m1 == [m EXCEPT !.si.nodes = @ + 1,
                        !.si.sel_depth = Max(@, f.ply),
                        !.si.pv_length[f.ply] = f.ply,
                        !.taken = @ \cup (IF iir THEN {"iir"} ELSE {})
                                    \cup (IF f.in_check THEN {"check_extension"} ELSE {})]
    IN  IF hit # NoEntry /\ ~f.pv_node /\ valid_cutoff(hit, f.alpha, f.beta, f.depth)
        THEN Return(m, f.entry, hit.score, "tt_cutoff")
        ELSE Prune(m1, [f EXCEPT !.depth = depth, !.tt_move = tt_move,
                                 !.eval = evaluate(m.board)])

\* alpha_beta.rs:48-50
Horizon(q, entry) == Return(q.m, entry, q.score, "qsearch")

\* alpha_beta.rs:20-51: the locals, repetition, mate distance pruning, the ply
\* limit and the horizon.
Preamble(m, entry) ==
    LET c == m.ctl
        ply == m.si.ply
        is_root == ply = 0
        in_chk == in_check(m.board)
        alpha == IF is_root THEN c.alpha ELSE Max(c.alpha, (0 - MATE) + ply)
        beta == IF is_root THEN c.beta ELSE Min(c.beta, (MATE - ply) - 1)
        f == [pc |-> "entry", entry |-> entry, ply |-> ply, is_root |-> is_root,
              pv_node |-> c.beta - c.alpha > 1, original_alpha |-> c.alpha,
              in_check |-> in_chk, best_score |-> 0 - INFINITY, best_move |-> NoMove,
              captures |-> << >>, quiets |-> << >>,
              depth |-> Max(c.depth, 0), alpha |-> alpha, beta |-> beta,
              tt_move |-> NoMove, eval |-> 0, moves |-> << >>, i |-> 1,
              made |-> << >>]
    IN  IF ~is_root /\ three_fold(m.board) THEN Return(m, entry, DRAW, "repetition")
        ELSE IF ~is_root /\ alpha >= beta THEN Return(m, entry, alpha, "mate_distance")
        ELSE IF ply >= MAX_PLY - 1 THEN Return(m, entry, evaluate(m.board), "max_ply")
        ELSE IF c.depth <= 0 /\ ~in_chk THEN Horizon(QsearchCall(m, alpha, beta), entry)
        ELSE Probe(m, f)

\* Mutant of Enter: the node is counted before the time check
\* (alpha_beta.rs:71 ahead of 13-18).
Enter_counts_first(m) ==
    LET ply == m.si.ply
        m1 == [m EXCEPT !.si.pv[ply] = [j \in Plies |-> NoMove]]
    IN  IF TimeCheckDue(m1.si.nodes + 1) /\ m1.expired
        THEN Return([m1 EXCEPT !.si.terminated = TRUE, !.si.nodes = @ + 1],
                    Snapshot(m), 0, "time")
        ELSE Preamble(m1, Snapshot(m))

\* alpha_beta.rs:10-18: a call is entered.
Enter(m) ==
    LET ply == m.si.ply
        m1 == [m EXCEPT !.si.pv[ply] = [j \in Plies |-> NoMove]]
    IN  IF TimeCheckDue(m1.si.nodes) /\ m1.expired
        THEN Return([m1 EXCEPT !.si.terminated = TRUE], Snapshot(m), 0, "time")
        ELSE Preamble(m1, Snapshot(m))

\* alpha_beta.rs:95-101: the null move search has returned.
NullReturn(m) ==
    LET f == Last(m.stack)
        score == 0 - m.ctl.val
        m1 == [m EXCEPT !.stack = Front(@), !.board = undo_null_move(@)]
    IN  IF score >= f.beta THEN Return(m1, f.entry, f.beta, "nmp_cut")
        ELSE SearchMoves(m1, f)

\* Mutant of ChildReturn: the child's value is taken without the change of
\* sign (the minus of alpha_beta.rs:139, 150, 156 and 159 lost).
ChildReturn_unnegated(m) ==
    LET f == Last(m.stack)
        score == m.ctl.val
        m1 == [m EXCEPT !.stack = Front(@)]
    IN  IF f.pc = "lmr" /\ score > f.alpha
        THEN Call(m1, f, "zw", f.depth - 1, (0 - f.alpha) - 1, 0 - f.alpha)
        ELSE IF f.pc = "zw" /\ score > f.alpha /\ score < f.beta
        THEN Call(m1, f, "full", f.depth - 1, 0 - f.beta, 0 - f.alpha)
        ELSE AfterMove(m1, f, score)

\* alpha_beta.rs:139-162: a search of the move f.moves[f.i] has returned.
ChildReturn(m) ==
    LET f == Last(m.stack)
        score == 0 - m.ctl.val
        m1 == [m EXCEPT !.stack = Front(@)]
    IN  IF f.pc = "lmr" /\ score > f.alpha
        THEN Call(m1, f, "zw", f.depth - 1, (0 - f.alpha) - 1, 0 - f.alpha)
        ELSE IF f.pc = "zw" /\ score > f.alpha /\ score < f.beta
        THEN Call(m1, f, "full", f.depth - 1, 0 - f.beta, 0 - f.alpha)
        ELSE AfterMove(m1, f, score)

(***************************************************************************)
(* search.rs:35-98 and the iterative deepening driver (iter_deep.rs, not   *)
(* among the sources here; modelled from the specification's section 4.1,  *)
(* at depths below the aspiration threshold): the worker thread, the host  *)
(* that feeds it, and the steps of the search.                             *)
(***************************************************************************)
\* search.rs:39  depth: 69, scaled down.
MaxDepth == 4
\* The same ceiling where the host sends commands at any time.
WorkerDepth == 4
\* search.rs:40
SEARCH_TIME == 600000
\* The argument of the movetime commands sent.
MoveTime == 5
\* Moves the host plays before the search of Spec, and in SpecWorker.
MaxPreMoves == 4
MaxWorkerMoves == 1
\* Commands the host sends in SpecWorker.
MaxSent == 2

\* A command: its name and argument, and (for the record, the program does
\* not read it) the number of the search that was running when it was sent,
\* 0 when none was.
Cmd(name) == [name |-> name, arg |-> 0, search |-> 0]
Movetime(n) == [name |-> "movetime", arg |-> n, search |-> 0]
Commands == {Cmd("go"), Cmd("stop"), Cmd("quit"), Movetime(MoveTime)}

UciTexts == {to_uci(e.mv) : e \in AllEdges} \cup {"0000"}

WorkerNew(depth) ==
    [pc |-> "recv", cmd |-> Cmd("none"), halt |-> TRUE, quit |-> FALSE,
     search_params |-> [depth |-> depth, search_time |-> SEARCH_TIME]]

DriverNew == [depth |-> 1, best_move |-> NoMove, score |-> 0, completed |-> 0]

Expired == elapsed > worker.search_params.search_time

Machine ==
    [board |-> board, si |-> si, tt |-> tt, stack |-> stack, ctl |-> ctl,
     taken |-> taken, effects |-> {}, ordering |-> NoOrdering, expired |-> Expired]

Install(m) ==
    /\ board' = m.board
    /\ si' = m.si
    /\ tt' = m.tt
    /\ stack' = m.stack
    /\ ctl' = m.ctl
    /\ taken' = m.taken
    /\ effects' = m.effects
    /\ ordering' = m.ordering

\* The number of the search the worker is in (searches are counted by the
\* lines printed), 0 when it is in none.
SearchRunning == IF worker.pc = "search" THEN Len(output) + 1 ELSE 0

\* search.rs:93-97  Search::send
HostSend(c) ==
    /\ sent < MaxSent
    /\ queue' = Append(queue, [c EXCEPT !.search = SearchRunning])
    /\ sent' = sent + 1
    /\ UNCHANGED <<seeVars, mtx_board, workerVars, searchVars, elapsed>>

\* The one go of Spec, sent when the position is set up.
HostGo ==
    /\ sent = 0
    /\ queue' = Append(queue, Cmd("go"))
    /\ sent' = sent + 1
    /\ UNCHANGED <<seeVars, mtx_board, workerVars, searchVars, elapsed>>

\* board.rs:58-66  the host plays a move on the shared board, under its lock.
PlayOnShared(u) ==
    /\ locks.board = "free"
    /\ mtx_board' = play_uci(mtx_board, u)
    /\ UNCHANGED <<seeVars, queue, sent, workerVars, searchVars, elapsed>>

HostSetup(u) ==
    /\ sent = 0
    /\ Len(mtx_board.move_stack) < MaxPreMoves
    /\ PlayOnShared(u)

HostPlayUci(u) ==
    /\ Len(mtx_board.move_stack) < MaxWorkerMoves
    /\ PlayOnShared(u)

\* search.rs:45-46
WorkerRecv ==
    /\ worker.pc = "recv"
    /\ queue # << >>
    /\ worker' = [worker EXCEPT !.pc = "lock_board", !.cmd = Head(queue)]
    /\ queue' = Tail(queue)
    /\ UNCHANGED <<seeVars, mtx_board, sent, locks, output, driver, searchVars, elapsed>>

\* search.rs:47
WorkerLockBoard ==
    /\ worker.pc = "lock_board"
    /\ locks.board = "free"
    /\ locks' = [locks EXCEPT !.board = "worker"]
    /\ worker' = [worker EXCEPT !.pc = "lock_tt"]
    /\ UNCHANGED <<seeVars, hostVars, output, driver, searchVars, elapsed>>

\* Mutant of WorkerLockTT: the worker goes on without the TT lock.
WorkerLockTT_not_taken ==
    /\ worker.pc = "lock_tt"
    /\ locks.tt = "free"
    /\ locks' = locks
    /\ worker' = [worker EXCEPT !.pc = "handle"]
    /\ UNCHANGED <<seeVars, hostVars, output, driver, searchVars, elapsed>>

\* search.rs:48
WorkerLockTT ==
    /\ worker.pc = "lock_tt"
    /\ locks.tt = "free"
    /\ locks' = [locks EXCEPT !.tt = "worker"]
    /\ worker' = [worker EXCEPT !.pc = "handle"]
    /\ UNCHANGED <<seeVars, hostVars, output, driver, searchVars, elapsed>>

\* Mutant of match_cmd: go leaves halt as it is (search.rs:59 lost).
match_cmd_go_keeps_halt(w) ==
    LET w1 == IF w.cmd.name = "movetime"
              THEN [w EXCEPT !.search_params.search_time = w.cmd.arg] ELSE w
    IN  CASE w.cmd.name = "stop" -> [w1 EXCEPT !.halt = TRUE]
          [] w.cmd.name = "quit" -> [w1 EXCEPT !.quit = TRUE]
          [] OTHER -> w1

\* search.rs:50-63
match_cmd(w) ==
    LET w1 == IF w.cmd.name = "movetime"
              THEN [w EXCEPT !.search_params.search_time = w.cmd.arg] ELSE w
    IN  CASE w.cmd.name = "go" -> [w1 EXCEPT !.halt = FALSE]
          [] w.cmd.name = "stop" -> [w1 EXCEPT !.halt = TRUE]
          [] w.cmd.name = "quit" -> [w1 EXCEPT !.quit = TRUE]
          [] OTHER -> w1

\* search.rs:50-75, and the end of the loop body when no search is started.
WorkerHandle ==
    /\ worker.pc = "handle"
    /\ LET w == match_cmd(worker)
       IN  IF ~w.halt /\ ~w.quit
           THEN /\ worker' = [w EXCEPT !.pc = "search"]
                /\ si' = SearchInfoNew
                /\ board' = mtx_board
                /\ driver' = DriverNew
                /\ elapsed' = 0
                /\ UNCHANGED locks
           ELSE /\ worker' = [w EXCEPT !.pc = IF w.quit THEN "exit" ELSE "recv"]
                /\ locks' = [board |-> "free", tt |-> "free"]
                /\ UNCHANGED <<si, board, driver, elapsed>>
    /\ ctl' = Idle
    /\ stack' = << >>
    /\ taken' = {}
    /\ effects' = {}
    /\ ordering' = NoOrdering
    /\ UNCHANGED <<seeVars, hostVars, output, tt>>

\* SearchInfo::elapsed() passes search_time.
TimePasses ==
    /\ worker.pc = "search"
    /\ ~Expired
    /\ elapsed' = worker.search_params.search_time + 1
    /\ UNCHANGED <<seeVars, hostVars, workerVars, searchVars>>

DriverGoesOn ==
    /\ driver.depth <= worker.search_params.depth
    /\ ~si.terminated
    /\ elapsed < worker.search_params.search_time

\* iterative_deepening: the root call of the next depth.
DriverCall ==
    /\ worker.pc = "search"
    /\ ctl = Idle
    /\ DriverGoesOn
    /\ ctl' = [kind |-> "call", depth |-> driver.depth,
               alpha |-> 0 - INFINITY, beta |-> INFINITY]
    /\ taken' = {}
    /\ effects' = {}
    /\ ordering' = NoOrdering
    /\ UNCHANGED <<seeVars, hostVars, workerVars, tt, board, si, stack, elapsed>>

\* iterative_deepening: the root call has returned.
DriverReturn ==
    /\ worker.pc = "search"
    /\ ctl.kind = "ret"
    /\ stack = << >>
    /\ driver' = IF si.terminated THEN driver
                 ELSE [depth |-> driver.depth + 1, best_move |-> si.pv[0][0],
                       score |-> ctl.val, completed |-> driver.depth]
    /\ ctl' = Idle
    /\ effects' = {}
    /\ ordering' = NoOrdering
    /\ UNCHANGED <<seeVars, hostVars, locks, worker, output, tt, board, si, stack, taken,
                   elapsed>>

\* iterative_deepening returns: the move of the deepest completed depth, or
\* any legal move when no depth was completed.
DriverFinish ==
    /\ worker.pc = "search"
    /\ ctl = Idle
    /\ ~DriverGoesOn
    /\ \E mv \in IF driver.completed >= 1 \/ Len(legal_moves(board)) = 0
                 THEN {driver.best_move} ELSE Range(legal_moves(board)) :
          driver' = [driver EXCEPT !.best_move = mv]
    /\ worker' = [worker EXCEPT !.pc = "print"]
    /\ UNCHANGED <<seeVars, hostVars, locks, output, searchVars, elapsed>>

\* search.rs:77-85
WorkerPrint ==
    /\ worker.pc = "print"
    /\ output' = Append(output,
                        IF driver.best_move # NoMove
                        THEN "bestmove " \o to_uci(driver.best_move)
                        ELSE "bestmove (none)")
    /\ worker' = [worker EXCEPT !.halt = TRUE, !.pc = "recv"]
    /\ locks' = [board |-> "free", tt |-> "free"]
    /\ UNCHANGED <<seeVars, hostVars, driver, searchVars, elapsed>>

\* alpha_beta.rs:9-162  a call of alpha_beta runs to its first call or return.
AlphaBetaEnter ==
    /\ worker.pc = "search"
    /\ ctl.kind = "call"
    /\ Install(Enter(Machine))
    /\ UNCHANGED <<seeVars, hostVars, workerVars, elapsed>>

\* alpha_beta.rs:95-162
AlphaBetaNullReturn ==
    /\ ctl.kind = "ret"
    /\ stack # << >>
    /\ Last(stack).pc = "null"
    /\ Install(NullReturn(Machine))
    /\ UNCHANGED <<seeVars, hostVars, workerVars, elapsed>>

\* alpha_beta.rs:139-219
AlphaBetaChildReturn ==
    /\ ctl.kind = "ret"
    /\ stack # << >>
    /\ Last(stack).pc # "null"
    /\ Install(ChildReturn(Machine))
    /\ UNCHANGED <<seeVars, hostVars, workerVars, elapsed>>

SearchStep ==
    \/ DriverCall \/ AlphaBetaEnter \/ AlphaBetaNullReturn \/ AlphaBetaChildReturn
    \/ DriverReturn \/ DriverFinish \/ TimePasses

WorkerStep == WorkerRecv \/ WorkerLockBoard \/ WorkerLockTT \/ WorkerHandle \/ WorkerPrint

(***************************************************************************)
(* Specifications.  Spec: the host sets up a position of the game, sends   *)
(* one go, and the worker searches it to MaxDepth.  SpecWorker: the host   *)
(* sends commands and plays moves at any time.  SpecSee: one call of see() *)
(* on any view, move and threshold.                                        *)
(***************************************************************************)
StartPositions == {1, 15, 18, 24}
WorkerStarts == {4, 12}

NoApi == [phase |-> "idle"]

InitProgram(starts, depth) ==
    /\ mtx_board \in {BoardNew(Game[p]) : p \in starts}
    /\ api = NoApi
    /\ tt = TTNew
    /\ locks = [board |-> "free", tt |-> "free"]
    /\ queue = << >>
    /\ sent = 0
    /\ worker = WorkerNew(depth)
    /\ output = << >>
    /\ board = BoardNew(Game[1])
    /\ si = SearchInfoNew
    /\ elapsed = 0
    /\ driver = DriverNew
    /\ stack = << >>
    /\ ctl = Idle
    /\ taken = {}
    /\ effects = {}
    /\ ordering = NoOrdering

NoSee == [view |-> View("White", NoRole, {}), mv |-> NoMove, threshold |-> 0]

Init ==
    /\ InitProgram(StartPositions, MaxDepth)
    /\ seeIn = NoSee
    /\ seeOut = Pending

Next ==
    \/ \E u \in UciTexts : HostSetup(u)
    \/ HostGo
    \/ WorkerStep
    \/ SearchStep

Spec == Init /\ [][Next]_vars

InitWorker ==
    /\ InitProgram(WorkerStarts, WorkerDepth)
    /\ seeIn = NoSee
    /\ seeOut = Pending

NextWorker ==
    \/ \E c \in Commands : HostSend(c)
    \/ \E u \in UciTexts : HostPlayUci(u)
    \/ WorkerStep
    \/ SearchStep

SpecWorker == InitWorker /\ [][NextWorker]_vars

\* A search deep enough for a null move below a null move: the reduction of
\* alpha_beta.rs:93 is at least 4 and the null child needs depth 4 again.
DeepDepth == 13
DeepStarts == {7, 28, 30, 35, 40}

InitDeep ==
    /\ InitProgram(DeepStarts, DeepDepth)
    /\ seeIn = NoSee
    /\ seeOut = Pending

SpecDeep == InitDeep /\ [][Next]_vars

\* The worker thread keeps running: a step of the search that can be taken
\* is taken.
SearchRuns ==
    \/ DriverCall \/ AlphaBetaEnter \/ AlphaBetaNullReturn \/ AlphaBetaChildReturn
    \/ DriverReturn \/ DriverFinish

\* ENABLED <<SearchRuns>>_vars: between "go" and the print of the best move
\* one of the steps of SearchRuns can be taken and changes ctl or worker.
SearchEnabled == worker.pc = "search"

\* WF_vars(SearchRuns), with its ENABLED written as SearchEnabled: the
\* worker is a thread of its own (search.rs:35) that nothing blocks while
\* it holds both locks.
SpecDeepFair == SpecDeep /\ ([]<>(~SearchEnabled) \/ []<><<SearchRuns>>_vars)

SearchEnabledIsEnabled == SearchEnabled <=> ENABLED <<SearchRuns>>_vars

InitSee ==
    /\ \E v \in SeeViews : \E mv \in ViewMoves(v) : \E t \in SeeThresholds :
          seeIn = [view |-> v, mv |-> mv, threshold |-> t]
    /\ seeOut = Pending
    /\ InitProgram({1}, MaxDepth)

SeeCall ==
    /\ seeOut = Pending
    /\ seeIn # NoSee
    /\ seeOut' = Some(see(seeIn.view, seeIn.mv, seeIn.threshold))
    /\ UNCHANGED <<seeIn, api, hostVars, workerVars, searchVars, elapsed>>

NextSee == SeeCall

SpecSee == InitSee /\ [][NextSee]_vars

(***************************************************************************)
(* Board::make_move::<IN_PLACE> followed by Board::undo_move, called on a  *)
(* board the host has set up: first, or not, a move made with IN_PLACE =   *)
(* false (as the search makes it), then the pair under check.              *)
(***************************************************************************)
\* board.rs:185-191 as a call: self.ply -= 1 on a usize that is 0 panics in a
\* build with overflow checks and wraps in one without; in the wrapped
\* outcome ply = -1 stands for usize::MAX.
undo_move_outcomes(b) ==
    {[panic |-> FALSE, b |-> undo_move(b)]}
        \cup (IF b.ply = 0 THEN {[panic |-> TRUE, b |-> b]} ELSE {})

BoardSetup(u) == api = NoApi /\ HostSetup(u)

ApiBegin ==
    /\ api = NoApi
    /\ api' = [phase |-> "ready", in_place |-> FALSE, panic |-> FALSE,
               before |-> mtx_board, now |-> mtx_board]
    /\ UNCHANGED <<seeIn, seeOut, hostVars, workerVars, searchVars, elapsed>>

ApiPrior(i) ==
    /\ api.phase = "ready"
    /\ api.now.ply = 0
    /\ i \in DOMAIN legal_moves(api.now)
    /\ api' = [api EXCEPT !.now = make_move(api.now, legal_moves(api.now)[i], FALSE),
                          !.before = make_move(api.now, legal_moves(api.now)[i], FALSE)]
    /\ UNCHANGED <<seeIn, seeOut, hostVars, workerVars, searchVars, elapsed>>

ApiMake(i, in_place) ==
    /\ api.phase = "ready"
    /\ i \in DOMAIN legal_moves(api.now)
    /\ api' = [api EXCEPT !.phase = "made", !.in_place = in_place,
                          !.now = make_move(api.now, legal_moves(api.now)[i], in_place)]
    /\ UNCHANGED <<seeIn, seeOut, hostVars, workerVars, searchVars, elapsed>>

ApiUndo ==
    /\ api.phase = "made"
    /\ \E o \in undo_move_outcomes(api.now) :
          api' = [api EXCEPT !.phase = "undone", !.panic = o.panic, !.now = o.b]
    /\ UNCHANGED <<seeIn, seeOut, hostVars, workerVars, searchVars, elapsed>>

MaxMoves == 3

NextBoard ==
    \/ \E u \in UciTexts : BoardSetup(u)
    \/ ApiBegin
    \/ \E i \in 1..MaxMoves : ApiPrior(i)
    \/ \E i \in 1..MaxMoves : \E in_place \in BOOLEAN : ApiMake(i, in_place)
    \/ ApiUndo

SpecBoard == Init /\ [][NextBoard]_vars

(***************************************************************************)
(* Search::sort_moves called on the legal moves of a board the host has    *)
(* set up, with a PV move, a TT move and a killer drawn from those moves   *)
(* (or none) and the history tables of a new search.                       *)
(***************************************************************************)
MovesOrNone(b) == Range(legal_moves(b)) \cup {NoMove}

ApiSort(pv_move, tt_move, killer) ==
    /\ api.phase = "ready"
    /\ {pv_move, tt_move, killer} \subseteq MovesOrNone(api.now)
    /\ LET moves == legal_moves(api.now)
           hist == SearchInfoNew.history
       IN  api' = [phase |-> "sorted", moves |-> moves,
                   pv_move |-> pv_move, tt_move |-> tt_move, killer |-> killer,
                   keys |-> [mv \in Range(moves) |->
                               sort_key(mv, pv_move, tt_move, api.now.pos, killer, hist)],
                   sorted |-> sort_moves(moves, pv_move, tt_move, api.now.pos, killer, hist)]
    /\ UNCHANGED <<seeIn, seeOut, hostVars, workerVars, searchVars, elapsed>>

NextSort ==
    \/ \E u \in UciTexts : BoardSetup(u)
    \/ ApiBegin
    \/ \E pv_move, tt_move, killer \in Range(legal_moves(mtx_board)) \cup {NoMove} :
          ApiSort(pv_move, tt_move, killer)

SpecSort == Init /\ [][NextSort]_vars

(***************************************************************************)
(* Board::is_improving called on a board the host has set up, after moves  *)
(* made with IN_PLACE = false and calls of set_eval for the ply reached.   *)
(***************************************************************************)
MaxApiPly == 4

ApiEvals == {0 - INFINITY, 0, 100}

ApiPush(i) ==
    /\ api.phase = "ready"
    /\ api.now.ply < MaxApiPly
    /\ i \in DOMAIN legal_moves(api.now)
    /\ api' = [api EXCEPT !.now = make_move(api.now, legal_moves(api.now)[i], FALSE)]
    /\ UNCHANGED <<seeIn, seeOut, hostVars, workerVars, searchVars, elapsed>>

ApiSetEval(eval) ==
    /\ api.phase = "ready"
    /\ api' = [api EXCEPT !.now = set_eval(api.now, api.now.ply, eval)]
    /\ UNCHANGED <<seeIn, seeOut, hostVars, workerVars, searchVars, elapsed>>

ApiImproving ==
    /\ api.phase = "ready"
    /\ api' = [phase |-> "asked", now |-> api.now, improving |-> is_improving(api.now)]
    /\ UNCHANGED <<seeIn, seeOut, hostVars, workerVars, searchVars, elapsed>>

NextImproving ==
    \/ \E u \in UciTexts : BoardSetup(u)
    \/ ApiBegin
    \/ \E i \in 1..MaxMoves : ApiPush(i)
    \/ \E eval \in ApiEvals : ApiSetEval(eval)
    \/ ApiImproving

SpecImproving == Init /\ [][NextImproving]_vars

(***************************************************************************)
(* Claims about alpha_beta and the worker (Spec, SpecWorker).              *)
(***************************************************************************)
\* A call of alpha_beta is entered in this step.
EnterStep == worker.pc = "search" /\ ctl.kind = "call" /\ ctl' # ctl

\* A call of alpha_beta below the root has returned to the frame that made it,
\* and that frame goes on in this step.
ResumeStep == ctl.kind = "ret" /\ stack # << >> /\ ctl' # ctl

\* C1: when a call of alpha_beta returns, by whatever exit, the working
\* board's hash, the lengths of its state stack, move stack and history, the
\* board ply and search_info.ply are what they were when the call was entered.
C1_MakeUndoRoundTrip == ctl.kind = "ret" => Snapshot(Machine) = ctl.entry

\* C1 witness: a call below the root that made a null move, searched it and
\* undid it has returned with the null move cutoff.
C1_Witness ==
    /\ ctl.kind = "ret"
    /\ ctl.via = "nmp_cut"
    /\ ctl.entry.move_stack > 0
    /\ stack # << >>

\* The lines the worker prints for a search.
BestmoveLines == {"bestmove " \o u : u \in UciTexts} \cup {"bestmove (none)"}

\* The worker, having dequeued go, starts one search.
C2_GoStep ==
    (worker.pc = "handle" /\ worker.cmd.name = "go" /\ worker' # worker) =>
        /\ worker'.pc = "search"
        /\ driver' = DriverNew
        /\ output' = output

\* The worker comes back to its receive for the command after a go only by
\* printing one bestmove line.
C2_BackStep ==
    (worker.cmd.name = "go" /\ worker.pc # "recv" /\ worker'.pc = "recv") =>
        /\ Len(output') = Len(output) + 1
        /\ Last(output') \in BestmoveLines

\* C2: for every go the worker dequeues it runs one search and prints a
\* bestmove line (a move or (none)) before it dequeues the next command.
C2_BestmovePerGo == [][C2_GoStep /\ C2_BackStep]_vars

\* C2 witness: the host sent go twice, the worker has answered both and is
\* back at its receive.
C2_Witness ==
    /\ worker.pc = "recv"
    /\ worker.cmd.name = "go"
    /\ sent = 2
    /\ queue = << >>
    /\ Len(output) = 2

\* A stop command sent while the search now running was running is in the
\* queue.
StopQueued ==
    /\ worker.pc = "search"
    /\ \E i \in DOMAIN queue : queue[i].name = "stop" /\ queue[i].search = SearchRunning

\* C3: a stop sent while a search runs ends the search at its next node
\* boundary (the node counter a multiple of the interval, alpha_beta.rs:13):
\* the call entered there sets terminated and returns.
C3_StopEndsSearchAtBoundary ==
    [][(EnterStep /\ StopQueued /\ si.nodes > 0 /\ TimeCheckDue(si.nodes)) =>
          (si'.terminated /\ ctl'.kind = "ret")]_vars

\* What a frame of alpha_beta can write with a child's value.
SearchWrites == {"tt_write", "killer", "history", "update_pv"}

\* C4: once a call of alpha_beta has returned 0 because it set terminated
\* (alpha_beta.rs:13-18; the flag was not set by qsearch), no frame still on
\* the stack writes a table entry, a killer, history or the PV.
C4_TerminatedResultsDiscarded ==
    [][(ResumeStep /\ si.terminated /\ "qsearch_time" \notin taken) =>
          effects' \cap SearchWrites = {}]_vars

\* Occurrences of the current position's hash in the board's history.
Occurrences(b) == Cardinality({i \in DOMAIN b.history : b.history[i] = get_hash(b)})

\* A call entered below the root on a repeated position ends in the same step
\* with DRAW; the board, the frames, the node counter and the table are
\* untouched.
C5_RepetitionStep ==
    (EnterStep /\ si.ply > 0 /\ three_fold(board)) =>
        /\ ctl'.kind = "ret"
        /\ ctl'.val = DRAW
        /\ board' = board
        /\ stack' = stack
        /\ si'.nodes = si.nodes
        /\ tt' = tt

\* C5: at a node below the root where three_fold() is true alpha_beta returns
\* DRAW whatever the depth and the window, without making a move, counting a
\* node or writing the table; and three_fold() is true whenever the hash of
\* the position occurs at least twice in the history.
C5_ThreeFoldDraw ==
    /\ [](Occurrences(board) >= 2 => three_fold(board))
    /\ [][C5_RepetitionStep]_vars

\* C5 witness: a call at ply > 0 has returned by the repetition exit.
C5_Witness ==
    /\ ctl.kind = "ret"
    /\ ctl.via = "repetition"
    /\ si.ply > 0
    /\ Occurrences(board) >= 2

\* The root position has no legal move and its king is not in check.
RootStalemate == Len(legal_moves(board)) = 0 /\ ~in_check(board)

C6_RootStep ==
    (EnterStep /\ stack = << >> /\ si.ply = 0 /\ ctl.depth >= 1 /\ RootStalemate) =>
        /\ ctl'.kind = "ret"
        /\ ctl'.val = DRAW
        /\ si'.pv[0][0] = NoMove
        /\ tt' = tt

C6_PrintStep ==
    (worker.pc = "print" /\ RootStalemate /\ output' # output) =>
        Last(output') = "bestmove (none)"

\* C6: a root call with depth >= 1 on a position with no legal move and the
\* king not in check returns DRAW, leaves pv[0][0] None and writes nothing to
\* the table, and the worker prints bestmove (none).
C6_RootStalemate == [][C6_RootStep /\ C6_PrintStep]_vars

\* C6 witness: the search of a stalemate position completed a depth with
\* score DRAW and its bestmove line is printed.
C6_Witness ==
    /\ output # << >>
    /\ Last(output) = "bestmove (none)"
    /\ RootStalemate
    /\ ~si.terminated
    /\ driver.completed >= 1
    /\ driver.score = DRAW

\* A root call has returned and the search is not terminated: the call of
\* depth driver.depth is completed.
RootDone == ctl.kind = "ret" /\ stack = << >> /\ ~si.terminated

BestOf(S) == CHOOSE x \in S : \A y \in S : x >= y

\* The quiescence value of a position: qsearch on the full window, without
\* the table and without the clock.
Quiesce(pos, ply) ==
    qsearch(pos, 0 - INFINITY, INFINITY, 0, ply,
            [tt |-> TTNew, hist |-> HistoryNew, expired |-> FALSE]).score

\* Plain negamax to a depth: every legal move is searched to the same depth,
\* with the rules of alpha_beta for where a line ends (repetition below the
\* root, the ply limit, the quiescence value at the horizon, mate and
\* stalemate) and with its check extension; no window, no table, no pruning
\* and no reduction.
RECURSIVE Negamax(_, _, _)
Negamax(b, depth, ply) ==
    IF ply > 0 /\ three_fold(b) THEN DRAW
    ELSE IF ply >= MAX_PLY - 1 THEN evaluate(b)
    ELSE IF depth <= 0 /\ ~in_check(b) THEN Quiesce(b.pos, ply)
    ELSE IF Len(legal_moves(b)) = 0 THEN (IF in_check(b) THEN mated_in(ply) ELSE DRAW)
    ELSE BestOf({0 - Negamax(make_move(b, mv, FALSE),
                             (Max(depth, 0) + (IF in_check(b) THEN 1 ELSE 0)) - 1, ply + 1) :
                   mv \in Range(legal_moves(b))})

\* Null move pruning, reverse futility pruning, razoring, late move
\* reductions, futility pruning and SEE pruning, as recorded in taken.
SelectivePrunings ==
    {"nmp", "nmp_cut", "rfp", "razoring", "razoring_cut", "lmr", "futility", "see_pruning"}

\* What else cuts or shortens a search: a table cutoff (in alpha_beta or in
\* qsearch) and the internal iterative reduction.
TableCutsAndIIR == {"tt_cutoff", "qsearch_ttcut", "iir"}

\* The root call of depth d <= 4 on the full window is completed and none of
\* the selective prunings fired in it.
C7_Case == RootDone /\ driver.depth <= 4 /\ taken \cap SelectivePrunings = {}

\* C7 as stated: when none of the six selective prunings fires, the root call
\* alpha_beta(d, -INFINITY, +INFINITY), d <= 4, returns the score of plain
\* negamax to depth d.
C7_AlphaBetaIsNegamax == C7_Case => ctl.val = Negamax(board, driver.depth, 0)

\* Not C7's claim, a step on the way to its amendment: with the internal
\* iterative reduction alone put aside the scores still differ, by a table
\* cutoff (alpha_beta.rs:56-57) that returns the score of a deeper search.
C7_OnlyIIRAside ==
    (C7_Case /\ "iir" \notin taken) => ctl.val = Negamax(board, driver.depth, 0)

\* And with the table cutoffs alone put aside they differ by the reduction
\* (alpha_beta.rs:63-65).
C7_OnlyTableAside ==
    (C7_Case /\ taken \cap {"tt_cutoff", "qsearch_ttcut"} = {}) =>
        ctl.val = Negamax(board, driver.depth, 0)

\* C7 amended: the same, for the root calls in which moreover no table
\* cutoff and no internal iterative reduction is taken.
C7_AlphaBetaIsNegamaxNoTableNoIIR ==
    (C7_Case /\ taken \cap TableCutsAndIIR = {}) =>
        ctl.val = Negamax(board, driver.depth, 0)

\* C7 witness: a completed root call of depth 3 or 4 with no pruning, table
\* cutoff or reduction, in which a node was cut off by beta and a line ended
\* in a repetition.
C7_Witness ==
    /\ C7_Case
    /\ taken \cap TableCutsAndIIR = {}
    /\ driver.depth >= 3
    /\ {"beta_cutoff", "repetition", "qsearch"} \subseteq taken
    /\ ctl.val = Negamax(board, driver.depth, 0)

IsMove(mv) == mv # NoMove

\* The principal variation of row pv[0]: the moves among the entries
\* pv[0][0 .. pv_length[0] - 1].
PvLine == SelectSeq([i \in 1..si.pv_length[0] |-> si.pv[0][i - 1]], IsMove)

\* The moves of line from its move i on are legal when played in order from pos.
RECURSIVE LegalFrom(_, _, _)
LegalFrom(pos, line, i) ==
    \/ i > Len(line)
    \/ /\ line[i] \in Range(pos_legal_moves(pos))
       /\ LegalFrom(play_unchecked(pos, line[i]), line, i + 1)

\* The positions along a legal line, before each of its moves from move i
\* on, in which the side to move is in check.
RECURSIVE ChecksAlong(_, _, _)
ChecksAlong(pos, line, i) ==
    IF i > Len(line) THEN 0
    ELSE (IF pos_is_check(pos) THEN 1 ELSE 0)
         + ChecksAlong(play_unchecked(pos, line[i]), line, i + 1)

Dequeued == worker.pc \in {"lock_board", "lock_tt", "handle", "search", "print"}

\* The worker has taken both locks for a command and has not finished with it.
Handling == worker.pc \in {"handle", "search", "print"}

\* No other thread can get at the shared board or the shared TT.
Excluded ==
    /\ locks.board = "worker"
    /\ locks.tt = "worker"
    /\ ~ENABLED (\E u \in UciTexts : PlayOnShared(u))

\* C14: from the moment the worker has dequeued a command until it has
\* finished handling it, a whole search included, the worker holds the board
\* lock and the TT lock, and no other thread can access the shared board.
C14_LocksHeldFromDequeue == Dequeued => Excluded

\* C14 amended: from the moment the worker has taken the board lock and the TT
\* lock for a dequeued command (it asks for them right after the dequeue, and
\* waits while another thread holds one) until it has finished handling the
\* command, a whole search included, the worker holds both locks, and no
\* other thread can access the shared board.
C14_LocksHeldWhileHandling == Handling => Excluded

\* A search is running, the host has sent a further command, and the worker
\* holds both locks.
C14_Witness ==
    /\ worker.pc = "search"
    /\ ctl.kind = "call"
    /\ Len(stack) >= 1
    /\ queue # << >>
    /\ Excluded

\* The move stack holds a null move right after a null move.
TwoNullMoves(b) ==
    \E i \in 1..(Len(b.move_stack) - 1) :
        b.move_stack[i] = NoMove /\ b.move_stack[i + 1] = NoMove

\* C15: null move pruning is tried only when the previous move was not a
\* null move: the move stack of the searched board never holds two
\* consecutive null moves.
C15_NoConsecutiveNullMoves == ~TwoNullMoves(board)

\* The call entered in this step ends in it with the time check of
\* alpha_beta.rs:13-18: terminated is set, 0 is returned, no node is counted.
TimeCheckReturn ==
    /\ ctl'.kind = "ret"
    /\ ctl'.via = "time"
    /\ ctl'.val = 0
    /\ si'.terminated
    /\ si'.nodes = si.nodes
    /\ stack' = stack

\* C16: a call of alpha_beta sets terminated and returns 0 exactly when it
\* is entered with the node counter a multiple of the interval and the search
\* time over; once a call has done so, every later call of the same search
\* returns 0 as it is entered, and the node counter does not move again.
C16_TimeCheckAndUnwinding ==
    [][/\ EnterStep => (TimeCheckReturn <=> (TimeCheckDue(si.nodes) /\ Expired))
       /\ (EnterStep /\ "time" \in taken) => TimeCheckReturn
       /\ ("time" \in taken /\ "time" \in taken') => si'.nodes = si.nodes]_vars

\* A call is entered after an earlier call of the same search has set
\* terminated; nodes have been counted and frames are waiting.
C16_Witness ==
    /\ worker.pc = "search"
    /\ ctl.kind = "call"
    /\ "time" \in taken
    /\ si.terminated
    /\ si.nodes > 0
    /\ Len(stack) >= 2

\* A call of alpha_beta with depth >= 1 on a position with no legal move
\* returns in this step: as it is entered, or when its null move search has
\* returned (board' is the node's board again).
NoMoveNodeReturns ==
    /\ worker.pc = "search"
    /\ ctl'.kind = "ret"
    /\ ctl' # ctl
    /\ Len(legal_moves(board')) = 0
    /\ \/ ctl.kind = "call" /\ ctl.depth >= 1
       \/ ctl.kind = "ret" /\ stack # << >> /\ Last(stack).pc = "null"

\* The exits ahead of the table probe, and the table cutoff.
EarlyExits == {"time", "repetition", "mate_distance", "max_ply", "tt_cutoff"}

\* The exits of the pruning ahead of the move list (alpha_beta.rs:76-101).
PruningExits == {"rfp", "razoring_cut", "nmp_cut"}

MateOrDraw == ctl'.val = IF in_check(board') THEN mated_in(si'.ply) ELSE DRAW

\* C17: a node with depth >= 1 and no legal move, not ended by the time
\* check, repetition, mate-distance pruning, the MAX_PLY limit or a TT cutoff,
\* returns mated_in(ply) if the side to move is in check and DRAW otherwise,
\* at non-PV non-root nodes too.
C17_NoMoveNodeIsMateOrDraw ==
    [][(NoMoveNodeReturns /\ ctl'.via \notin EarlyExits) => MateOrDraw]_vars

\* C17 amended: the same, for a node that is also not ended by reverse
\* futility pruning, razoring or a null move cutoff, which at a non-PV
\* non-root node not in check run before the move list is examined.
C17_NoMoveNodeIsMateOrDrawUnlessPruned ==
    [][(NoMoveNodeReturns /\ ctl'.via \notin EarlyExits \cup PruningExits)
          => MateOrDraw]_vars

\* A call on a stalemate position, made below the root with a null window
\* at depth >= 1, has passed the pruning and returned DRAW.
C17_Witness ==
    /\ ctl.kind = "ret"
    /\ ctl.via = "no_moves"
    /\ ctl.val = DRAW
    /\ stack # << >>
    /\ Last(stack).pc = "zw"
    /\ Len(legal_moves(board)) = 0
    /\ ~in_check(board)

\* The place of a move in a list without repeated moves.
IndexOf(q, mv) == CHOOSE i \in DOMAIN q : q[i] = mv

Sorted == api.phase = "sorted"

\* Keys are non-increasing along the sorted list, which holds the generated
\* moves and no other.
SortedDescending ==
    /\ Range(api.sorted) = Range(api.moves)
    /\ Len(api.sorted) = Len(api.moves)
    /\ \A i, j \in DOMAIN api.sorted :
          i < j => api.keys[api.sorted[i]] >= api.keys[api.sorted[j]]

\* Two moves with equal keys are in the order the generated list had them in.
SortedStable ==
    \A i, j \in DOMAIN api.moves :
        (i < j /\ api.keys[api.moves[i]] = api.keys[api.moves[j]])
            => IndexOf(api.sorted, api.moves[i]) < IndexOf(api.sorted, api.moves[j])

\* C18: sort_moves is a stable descending sort by key: keys are
\* non-increasing along the list and moves with equal keys keep the relative
\* order of the generated list.
C18_StableDescendingSort == Sorted => SortedDescending /\ SortedStable

\* The descending half holds.
C18_DescendingSort == Sorted => SortedDescending

\* C19: the PV move handed to sort_moves receives the key HASH_MOVE, and is
\* ordered ahead of every move that is not the TT move.
C19_PvMoveRankedAsHashMove ==
    (Sorted /\ api.pv_move # NoMove) =>
        /\ api.keys[api.pv_move] = HASH_MOVE
        /\ \A mv \in Range(api.moves) \ {api.pv_move, api.tt_move} :
              IndexOf(api.sorted, api.pv_move) < IndexOf(api.sorted, mv)

\* The static evaluation at the board's ply is above the one two plies
\* earlier (four plies earlier when that one is the -INFINITY sentinel and
\* ply >= 4).
EvalRose(b) ==
    LET first == b.eval_stack[b.ply - 2]
    IN  b.eval_stack[b.ply] >
            (IF first = 0 - INFINITY /\ b.ply >= 4 THEN b.eval_stack[b.ply - 4] ELSE first)

\* C20: is_improving() is true exactly when ply >= 2, the side to move is
\* not in check and the static evaluation rose; in particular it is false
\* whenever ply < 2.
C20_ImprovingExactly ==
    api.phase = "asked" =>
        (api.improving <=> (api.now.ply >= 2 /\ ~in_check(api.now) /\ EvalRose(api.now)))

\* From ply 2 on the answer is as the claim states it.
C20_ImprovingFromPlyTwo ==
    (api.phase = "asked" /\ api.now.ply >= 2) =>
        (api.improving <=> (~in_check(api.now) /\ EvalRose(api.now)))

\* The other half of C20: every frame of alpha_beta has its static
\* evaluation in the searched board's eval_stack at its ply.
C20_EvalRecorded ==
    \A k \in DOMAIN stack : board.eval_stack[stack[k].ply] = stack[k].eval

\* C21: whenever alpha_beta calls update_ordering_heuristics, best_move is a
\* move and is the move made last, the one that caused the cutoff; it is in
\* neither list passed along, and the lists hold exactly the moves the node
\* made and searched before it, captures and quiets apart (a move skipped by
\* SEE pruning was not made and is in neither).
C21_RewardedMoveNotPenalised ==
    ordering.called =>
        /\ ordering.best_move # NoMove
        /\ ordering.made # << >>
        /\ ordering.best_move = Last(ordering.made)
        /\ ordering.best_move \notin Range(ordering.captures) \cup Range(ordering.quiets)
        /\ ordering.captures = SelectSeq(Front(ordering.made), is_capture)
        /\ ordering.quiets = SelectSeq(Front(ordering.made), LAMBDA mv : ~is_capture(mv))

\* A cutoff by a move that is not the node's first: an earlier move was
\* searched and is in a list, and a move between them was skipped.
C21_Witness ==
    /\ ordering.called
    /\ Len(ordering.made) >= 2
    /\ Len(ordering.captures) + Len(ordering.quiets) >= 1
    /\ ordering.i > Len(ordering.made)

\* The frames a call of depth DeepDepth can have below it: a real move per
\* ply up to the limit, and null moves that each take at least 4 of the
\* depth (one more than DeepDepth when the root is in check).
MaxFrames == (MAX_PLY - 1) + ((DeepDepth + 1) \div 4)

\* The step makes a null move and calls alpha_beta on it.
NullCallStep ==
    /\ ctl'.kind = "call"
    /\ ctl' # ctl
    /\ stack' # << >>
    /\ Last(stack').pc = "null"
    /\ Len(stack') = Len(stack) + (IF ctl.kind = "call" THEN 1 ELSE 0)

\* C22: every call of alpha_beta returns (the call entered with h frames
\* waiting returns to them), along lines of checks and null-move branches
\* too: search_info.ply stays below the limit, so real moves are bounded,
\* each null move lowers the depth by at least 4, and the frames never
\* exceed what these allow.
C22_Termination ==
    /\ \A h \in 0..MaxFrames :
          (ctl.kind = "call" /\ Len(stack) = h) ~> (ctl.kind = "ret" /\ Len(stack) = h)
    /\ [](si.ply <= MAX_PLY - 1 /\ Len(stack) <= MaxFrames)
    /\ [][NullCallStep => ctl'.depth <= Last(stack').depth - 4]_vars

\* The root call of the deepest iteration has returned from a line of
\* checks that ran to the ply limit.
C22_Witness ==
    /\ ctl.kind = "ret"
    /\ stack = << >>
    /\ driver.depth = DeepDepth
    /\ ~si.terminated
    /\ {"check_extension", "max_ply"} \subseteq taken
    /\ in_check(board)

\* The root call of the deepest iteration has returned and a null move was
\* searched below it.
C22_WitnessNull ==
    /\ ctl.kind = "ret"
    /\ stack = << >>
    /\ driver.depth = DeepDepth
    /\ "nmp" \in taken

(***************************************************************************)
(* Claims about see() (checked under SpecSee).                             *)
\* C13: make_move::<IN_PLACE>(mv) followed by undo_move() restores the board
\* (position and hash, repetition history, accumulator stack depth, state and
\* move stacks, ply), for both values of IN_PLACE.
C13_UndoReversesMake ==
    api.phase = "undone" => ~api.panic /\ api.now = api.before

\* With IN_PLACE = false the pair restores the board.
C13_UndoReversesStackedMake ==
    (api.phase = "undone" /\ ~api.in_place) => ~api.panic /\ api.now = api.before

\* The UCI texts of the legal moves of a board.
LegalTexts(b) == {to_uci(legal_moves(b)[i]) : i \in DOMAIN legal_moves(b)}

\* C12: play_uci with a text that is not the UCI text of a legal move of the
\* position leaves the board as it is: position, hash, state stack, move
\* stack, repetition history and ply.
C12_IllegalTextIgnored ==
    \A u \in UciTexts :
        u \notin LegalTexts(mtx_board) => play_uci(mtx_board, u) = mtx_board

\* C12 witness: the host has played moves on the shared board, and the text of
\* the move it played last is no longer the text of a legal move.
C12_Witness ==
    /\ mtx_board.move_stack # << >>
    /\ to_uci(Last(mtx_board.move_stack)) \notin LegalTexts(mtx_board)
    /\ play_uci(mtx_board, to_uci(Last(mtx_board.move_stack))) = mtx_board
    /\ play_uci(mtx_board, "0000") = mtx_board

(***************************************************************************)
\* The thresholds the sign law is compared over: the piece values, their
\* sums and differences, each with its neighbours.
LawThresholds ==
    UNION {{t - 1, t, t + 1} :
             t \in {0 - 650, 0 - 400, 0 - 300, 0 - 100, 0, 100, 400}}

SeeDone == seeOut # Pending

\* The swap loop of see() is entered: neither early return is taken.
SeeEntersLoop(in) ==
    /\ ~is_put(in.mv) /\ ~is_promotion(in.mv) /\ ~is_castle(in.mv)
    /\ move_value(in.mv) - in.threshold >= 0
    /\ move_value(in.mv) - in.threshold - SEE_VALUES[move_role(in.mv)] < 0

\* C9: see is monotone in the threshold: a true verdict at threshold T stays
\* true at every lower threshold, and a false verdict at T stays false at every
\* higher one, so the verdicts of one move are true up to some T* and false
\* above it.
C9_SeeSignLaw ==
    /\ seeOut = Some(TRUE) =>
          \A t \in LawThresholds :
              t <= seeIn.threshold => see(seeIn.view, seeIn.mv, t)
    /\ seeOut = Some(FALSE) =>
          \A t \in LawThresholds :
              t >= seeIn.threshold => ~see(seeIn.view, seeIn.mv, t)

\* C9 witness: a capture whose exchange runs through the swap loop (the other
\* side recaptures at least once) and whose verdict changes between two of the
\* thresholds compared.
C9_Witness ==
    /\ seeOut = Some(TRUE)
    /\ is_capture(seeIn.mv)
    /\ SeeEntersLoop(seeIn)
    /\ attacks_to(seeIn.view, Other(seeIn.view.turn),
                  (board_occupied(seeIn.view) \ {seeIn.mv.from}) \cup {TargetSq}) # {}
    /\ \E t \in LawThresholds :
          t > seeIn.threshold /\ ~see(seeIn.view, seeIn.mv, t)

\* The capture of C10: the captured piece is not defended (no piece of the side
\* not moving attacks the target square once the capture is made), the moving
\* piece is worth more than the captured one, and the threshold is the SEE
\* value of the captured piece.
UndefendedCapture(in) ==
    /\ in.mv.kind = "Normal"
    /\ in.mv.capture # NoRole
    /\ in.mv.promotion = NoRole
    /\ attacks_to(in.view, Other(in.view.turn),
                  (board_occupied(in.view) \ {in.mv.from}) \cup {TargetSq}) = {}
    /\ SEE_VALUES[move_role(in.mv)] > SEE_VALUES[in.mv.capture]
    /\ in.threshold = SEE_VALUES[in.mv.capture]

\* C10: see on such a capture returns Some(false).
C10_SeeUndefendedIsFalse ==
    (SeeDone /\ UndefendedCapture(seeIn)) => seeOut = Some(FALSE)

\* The capture of C11: the captured piece's SEE value less the moving piece's
\* is at least the threshold.
PaysForItself(in) ==
    /\ is_capture(in.mv)
    /\ move_value(in.mv) - SEE_VALUES[move_role(in.mv)] >= in.threshold

\* C11: see on a capture whose captured piece is worth at least the moving
\* piece plus the threshold returns Some(true), whatever attacks the target
\* square.
C11_SeePaysForItselfIsTrue ==
    (SeeDone /\ PaysForItself(seeIn)) => seeOut = Some(TRUE)

\* C11 witness: such a capture by a plain move (no promotion) onto a square
\* that the other side defends, as the knight takes the defended pawn at
\* threshold -300.
C11_Witness ==
    /\ seeOut = Some(TRUE)
    /\ PaysForItself(seeIn)
    /\ seeIn.mv.kind = "Normal" /\ seeIn.mv.promotion = NoRole
    /\ move_role(seeIn.mv) = "Knight" /\ seeIn.mv.capture = "Pawn"
    /\ seeIn.threshold = 0 - 300
    /\ attacks_to(seeIn.view, Other(seeIn.view.turn),
                  (board_occupied(seeIn.view) \ {seeIn.mv.from}) \cup {TargetSq}) # {}

\* The moves, null moves included, that the search has made on the working
\* board and not yet undone: the root call runs on a copy of the shared
\* board, which the worker keeps locked while it searches.
MovesSinceRoot == Len(board.move_stack) - Len(mtx_board.move_stack)

\* C23: at every entry to alpha_beta, search_info.ply is the number of
\* moves, null moves included, made and not yet undone since the root, and
\* this is board.ply() minus its value at the root.
C23_PlyCountersInStep ==
    (worker.pc = "search" /\ ctl.kind = "call") =>
        /\ si.ply = MovesSinceRoot
        /\ si.ply = board.ply - mtx_board.ply

\* The null moves among them.
NullMovesSinceRoot ==
    Len(SelectSeq(SubSeq(board.move_stack, Len(mtx_board.move_stack) + 1,
                         Len(board.move_stack)),
                  LAMBDA mv : mv = NoMove))

\* What the code keeps instead: search_info.ply counts the real moves only,
\* while board.ply() counts the null moves too.
C23_PlyCountsRealMoves ==
    (worker.pc = "search" /\ ctl.kind = "call") =>
        /\ si.ply = MovesSinceRoot - NullMovesSinceRoot
        /\ board.ply - mtx_board.ply = MovesSinceRoot

\* A child call has returned to the node of the frame Last(stack), and the
\* step that resumes the node runs update_pv (alpha_beta.rs:167-175).
UpdatePvStep ==
    /\ ctl.kind = "ret"
    /\ stack # << >>
    /\ Last(stack).pc # "null"
    /\ (ctl' # ctl \/ stack' # stack)
    /\ "update_pv" \in effects'

\* Row ply of the table s holds best_move and then moves only, up to a
\* length beyond ply.
PvRowWellFormed(s, ply, best_move) ==
    /\ s.pv_length[ply] > ply
    /\ s.pv[ply][ply] = best_move
    /\ \A j \in Plies : (ply <= j /\ j < s.pv_length[ply]) => s.pv[ply][j] # NoMove

\* The exits of alpha_beta ahead of pv_length[ply] = ply (alpha_beta.rs:73).
ExitsBeforePvLength ==
    {"time", "repetition", "mate_distance", "max_ply", "qsearch", "tt_cutoff"}

\* C24: after update_pv(best_move, ply) has run at a node, pv_length[ply] >
\* ply, pv[ply][ply] is best_move and every entry of the row from ply up to
\* pv_length[ply] is a move, whichever way the child call returned.
C24_PvWellFormed ==
    [][UpdatePvStep =>
          PvRowWellFormed(si', Last(stack).ply, Last(stack).moves[Last(stack).i])]_vars

\* What update_pv does keep: the move at pv[ply][ply], and a length that is
\* the one found at pv_length[ply + 1].
C24_PvHeadAndCopiedLength ==
    [][UpdatePvStep =>
          /\ si'.pv[Last(stack).ply][Last(stack).ply] = Last(stack).moves[Last(stack).i]
          /\ si'.pv_length[Last(stack).ply] = si.pv_length[Last(stack).ply + 1]]_vars

\* C24 for the children that left by an exit of alpha_beta.rs itself ahead
\* of line 73 (the quiescence search set aside).
C24_WellFormedUnlessEarlyExit ==
    [][(UpdatePvStep /\ ctl.via \in ExitsBeforePvLength \ {"qsearch"}) =>
          PvRowWellFormed(si', Last(stack).ply, Last(stack).moves[Last(stack).i])]_vars

\* C24 for the children that ran past line 73 and set pv_length[ply + 1]
\* themselves: their own update_pv may have copied a stale length into it.
C24_WellFormedAfterFullChild ==
    [][(UpdatePvStep /\ ctl.via \notin ExitsBeforePvLength) =>
          PvRowWellFormed(si', Last(stack).ply, Last(stack).moves[Last(stack).i])]_vars

====
